---- MODULE Spec2Model ----
(***************************************************************************)
(* A model of the WM8960 register-level driver (adafruit_wm8960.advanced): *)
(* the shadow register file, the two write-only descriptors (WOBit,        *)
(* WOBits), the frames handed to the I2C transport, and the named controls *)
(* built on top of them.                                                   *)
(*                                                                         *)
(* A register cell is the 2-byte bytearray of the driver, <<byte 0,        *)
(* byte 1>>; a frame is the cell as it is handed to i2c.write.  Python     *)
(* integers are unbounded, so the arithmetic below is unbounded too and    *)
(* only the two stores `reg & 0xFF` cut a value down to a byte.            *)
(***************************************************************************)
EXTENDS Integers, Sequences, FiniteSets, TLC

VARIABLES
    registers,    \* self._registers: register index -> <<byte 0, byte 1>>
    sample_rate,  \* self._sample_rate: None or <<rate>>
    frames,       \* the frames the last operation handed to the transport, in order
    last,         \* the last operation: its name, descriptor, argument and outcome
    nops,         \* number of operations performed since construction
    pending,      \* << >>, or the one assignment (control, value) still to be made
    _input,       \* self._input of the WM8960 wrapper: an Input value
    _gain,        \* self._gain of the WM8960 wrapper, in GainDen-ths
    _registerLocalCopy  \* self._registerLocalCopy of a WM8960 of adafruit_wm8960.py

vars ==
    <<registers, sample_rate, frames, last, nops, pending, _input, _gain,
      _registerLocalCopy>>

(***************************************************************************)
(* Bounds of the model.                                                    *)
(***************************************************************************)
\* operations performed after construction
MaxOps == 2
\* raw codes 0..MaxRaw (and the all-ones code) are assigned to a bit range
MaxRaw == 3
\* powers of two 2^w .. 2^(w+MaxOver-1) beyond a w-bit field are assigned too
MaxOver == 2
\* levels are assigned every DbStride eighths of a dB across a control's range
DbStride == 1
\* levels up to MaxBeyond eighths of a dB below a control's minimum and above
\* its maximum are assigned too
MaxBeyond == 2

(***************************************************************************)
(* Register addresses and the default register map.                        *)
(***************************************************************************)
_REG_LEFT_INPUT_VOLUME == 0
_REG_RIGHT_INPUT_VOLUME == 1
_REG_LOUT1_VOLUME == 2
_REG_ROUT1_VOLUME == 3
_REG_CLOCKING_1 == 4
_REG_ADC_DAC_CTRL_1 == 5
_REG_AUDIO_INTERFACE_1 == 7
_REG_CLOCKING_2 == 8
_REG_LEFT_DAC_VOLUME == 10
_REG_RIGHT_DAC_VOLUME == 11
_REG_RESET == 15
_REG_ALC1 == 17
_REG_ALC2 == 18
_REG_NOISE_GATE == 20
_REG_LEFT_ADC_VOLUME == 21
_REG_RIGHT_ADC_VOLUME == 22
_REG_PWR_MGMT_1 == 25
_REG_PWR_MGMT_2 == 26
_REG_LEFT_OUT_MIX == 34
_REG_RIGHT_OUT_MIX == 37
_REG_LOUT2_VOLUME == 40
_REG_ROUT2_VOLUME == 41
_REG_INPUT_BOOST_MIXER_1 == 43
_REG_INPUT_BOOST_MIXER_2 == 44
_REG_BYPASS_1 == 45
_REG_BYPASS_2 == 46
_REG_ADDITIONAL_CONTROL_4 == 48
_REG_PLL_N == 52
_REG_PLL_K_1 == 53
_REG_PLL_K_2 == 54
_REG_PLL_K_3 == 55

\* _REG_DEFAULTS[i] of the source is _REG_DEFAULTS[i + 1] here
_REG_DEFAULTS ==
    << 151, 151,   0,   0,   0,   8,   0,  10, 448,   0, 255, 255,   0,   0,   0,   0,
         0, 123, 256,  50,   0, 195, 195, 448,   0,   0,   0,   0,   0,   0,   0,   0,
       256, 256,  80,   0,   0,  80,   0,   0,   0,   0,  64,   0,   0,  80,  80,   0,
         2,  55,   0, 128,   8,  49,  38, 233 >>

RegIndex == 0 .. (Len(_REG_DEFAULTS) - 1)

(***************************************************************************)
(* Python's integer operators on the values the driver feeds them.         *)
(***************************************************************************)
\* bit k of the two's complement form of x (x may be negative)
BitOf(x, k) == (x \div (2 ^ k)) % 2

\* the low n bits of a | b, bit by bit from bit 0
RECURSIVE BitOr(_, _, _)
BitOr(a, b, n) ==
    IF n = 0 THEN 0
    ELSE (IF (a % 2) + (b % 2) > 0 THEN 1 ELSE 0) + (2 * BitOr(a \div 2, b \div 2, n - 1))

\* the low n bits of a & b
RECURSIVE BitAnd(_, _, _)
BitAnd(a, b, n) ==
    IF n = 0 THEN 0
    ELSE (IF (a % 2) + (b % 2) = 2 THEN 1 ELSE 0) + (2 * BitAnd(a \div 2, b \div 2, n - 1))

\* min(a, b)
Min(a, b) == IF a < b THEN a ELSE b

\* int.to_bytes(2, "big")
to_bytes(x) == << x \div 256, x % 256 >>

(***************************************************************************)
(* The descriptors.                                                        *)
(***************************************************************************)
WOBit(register_address, bit) ==
    [ kind |-> "bit",
      register_address |-> register_address,
      bit |-> bit,
      bit_mask |-> 2 ^ (bit % 8),
      byte |-> 1 - (bit \div 8) ]

WOBits(num_bits, register_address, lowest_bit) ==
    [ kind |-> "bits",
      register_address |-> register_address,
      num_bits |-> num_bits,
      bit_mask |-> ((2 ^ num_bits) - 1) * (2 ^ lowest_bit),
      lowest_bit |-> lowest_bit ]

\* WOBit._set: byte |= bit_mask, or byte &= ~bit_mask
WOBit_set(regs, d, value) ==
    LET cell == regs[d.register_address]
        old  == cell[d.byte + 1]
        new  == IF value THEN BitOr(old, d.bit_mask, 8)
                         ELSE BitAnd(old, -(d.bit_mask) - 1, 8)
    IN  [regs EXCEPT ![d.register_address] = [cell EXCEPT ![d.byte + 1] = new]]

\* WOBit.__get__
WOBit_get(regs, d) ==
    BitAnd(regs[d.register_address][d.byte + 1], d.bit_mask, 8) # 0

\* WOBits._set with the mask step left out
WOBits_set_NoClear(regs, d, value) ==
    LET cell    == regs[d.register_address]
        shifted == value * (2 ^ d.lowest_bit)
        reg0    == (cell[1] * 256) + cell[2]
        reg2    == BitOr(reg0, shifted, 16)
    IN  [regs EXCEPT ![d.register_address] = << reg2 \div 256, reg2 % 256 >>]

\* WOBits._set: the two bytes are joined big-endian, the field is cleared,
\* the shifted value is or-ed in, and each byte is stored as reg & 0xFF
WOBits_set(regs, d, value) ==
    LET cell    == regs[d.register_address]
        shifted == value * (2 ^ d.lowest_bit)
        reg0    == (cell[1] * 256) + cell[2]
        reg1    == BitAnd(reg0, -(d.bit_mask) - 1, 16)
        reg2    == BitOr(reg1, shifted, 16)
    IN  [regs EXCEPT ![d.register_address] = << reg2 \div 256, reg2 % 256 >>]

\* WOBits.__get__
WOBits_get(regs, d) ==
    LET cell == regs[d.register_address]
        reg  == (cell[1] * 256) + cell[2]
    IN  BitAnd(reg, d.bit_mask, 16) \div (2 ^ d.lowest_bit)

\* one descriptor assignment of a handler: the descriptor and its argument
Write(d, value) == [d |-> d, value |-> value]

Descriptor_set(regs, w) ==
    IF w.d.kind = "bit" THEN WOBit_set(regs, w.d, w.value)
                        ELSE WOBits_set(regs, w.d, w.value)

(***************************************************************************)
(* __set__ of both descriptors: _set, then i2c.write of the cell.  A       *)
(* handler is a sequence of such assignments, run in order; `fail` is the  *)
(* position of the assignment whose transport write raises (0: none does), *)
(* after which nothing more of the handler runs.                           *)
(***************************************************************************)
\* a handler whose failing assignment puts the old cell back
RECURSIVE Run_RollBack(_, _, _, _)
Run_RollBack(regs, sent, ws, fail) ==
    IF ws = << >>
    THEN [registers |-> regs, frames |-> sent, err |-> "none"]
    ELSE LET w  == Head(ws)
             r1 == Descriptor_set(regs, w)
         IN  IF fail = 1
             THEN [registers |-> regs, frames |-> sent, err |-> "OSError"]
             ELSE Run_RollBack(r1, Append(sent, r1[w.d.register_address]), Tail(ws),
                               fail - 1)

RECURSIVE Run(_, _, _, _)
Run(regs, sent, ws, fail) ==
    IF ws = << >>
    THEN [registers |-> regs, frames |-> sent, err |-> "none"]
    ELSE LET w  == Head(ws)
             r1 == Descriptor_set(regs, w)
         IN  IF fail = 1
             THEN [registers |-> r1, frames |-> sent, err |-> "OSError"]
             ELSE Run(r1, Append(sent, r1[w.d.register_address]), Tail(ws), fail - 1)

(***************************************************************************)
(* Named controls.                                                         *)
(***************************************************************************)
power == WOBit(_REG_PWR_MGMT_1, 6)
vmid == WOBits(2, _REG_PWR_MGMT_1, 7)
PLAYBACK == 1
dac_mute == WOBit(_REG_ADC_DAC_CTRL_1, 3)
pll == WOBit(_REG_PWR_MGMT_2, 0)
pll_prescale_div2 == WOBit(_REG_PLL_N, 4)
pll_n == WOBits(4, _REG_PLL_N, 0)
_pll_k1 == WOBits(6, _REG_PLL_K_1, 0)
_pll_k2 == WOBits(9, _REG_PLL_K_2, 0)
_pll_k3 == WOBits(9, _REG_PLL_K_3, 0)
clock_fractional_mode == WOBit(_REG_PLL_N, 5)
clock_from_pll == WOBit(_REG_CLOCKING_1, 0)
_system_clock_divider == WOBits(2, _REG_CLOCKING_1, 1)
_adc_clock_divider == WOBits(3, _REG_CLOCKING_1, 6)
_dac_clock_divider == WOBits(3, _REG_CLOCKING_1, 3)
_base_clock_divider == WOBits(4, _REG_CLOCKING_2, 0)
_amp_clock_divider == WOBits(3, _REG_CLOCKING_2, 6)
master_mode == WOBit(_REG_AUDIO_INTERFACE_1, 6)
_bit_depth == WOBits(2, _REG_AUDIO_INTERFACE_1, 2)
adc_channel_swap == WOBit(_REG_AUDIO_INTERFACE_1, 8)
gpio_output_mode == WOBits(3, _REG_ADDITIONAL_CONTROL_4, 4)
_reset == WOBit(_REG_RESET, 7)

(***************************************************************************)
(* Clock dividers.  A divider is a float in the source; here it is kept in *)
(* half units (1.5 is 3), which represents every table entry and every     *)
(* result of round(value * 2.0) / 2.0 exactly.                             *)
(***************************************************************************)
_BCLKDIV == << 2, 3, 4, 6, 8, 11, 12, 16, 22, 24, 32, 44, 48, 64 >>
_DCLKDIV == << 3, 4, 6, 8, 12, 16, 24, 32 >>
_ADCDACDIV == << 2, 3, 4, 6, 8, 11, 12 >>
_OPCLKDIV == << 2, 4, 6, 8, 11, 12 >>
_SYSCLK_DIV_BY_1 == 0
_SYSCLK_DIV_BY_2 == 2

\* round(num / den) for den > 0: to the nearest integer, ties to the even one
round(num, den) ==
    LET q == num \div den
        r == num % den
    IN  IF 2 * r < den THEN q
        ELSE IF 2 * r > den THEN q + 1
        ELSE IF q % 2 = 0 THEN q ELSE q + 1

\* value in table, and table.index(value)
InTable(table, t) == \E i \in 1 .. Len(table) : table[i] = t
index(table, t) == (CHOOSE i \in 1 .. Len(table) : table[i] = t) - 1

\* the setters of adc/dac/base/amp_clock_divider for the argument num / den:
\* value = round(value * 2.0) / 2.0; if value in table: field = table.index(value)
clock_divider_setter(d, table, num, den) ==
    LET twice == round(2 * num, den)
    IN  IF InTable(table, twice) THEN << Write(d, index(table, twice)) >> ELSE << >>

\* the getters: table[min(field, len(table))], an IndexError beyond the table
clock_divider_getter(regs, d, table, bound) ==
    LET i == Min(WOBits_get(regs, d), bound)
    IN  IF i < Len(table) THEN [err |-> "none", value |-> table[i + 1]]
                          ELSE [err |-> "IndexError", value |-> 0]

adc_clock_divider(regs) ==
    clock_divider_getter(regs, _adc_clock_divider, _ADCDACDIV, Len(_ADCDACDIV))
dac_clock_divider(regs) ==
    clock_divider_getter(regs, _dac_clock_divider, _ADCDACDIV, Len(_ADCDACDIV))
base_clock_divider(regs) ==
    clock_divider_getter(regs, _base_clock_divider, _BCLKDIV, Len(_BCLKDIV))
amp_clock_divider(regs) ==
    clock_divider_getter(regs, _amp_clock_divider, _DCLKDIV, Len(_DCLKDIV))

\* system_clock_div2
system_clock_div2(regs) == WOBits_get(regs, _system_clock_divider) = _SYSCLK_DIV_BY_2
system_clock_div2_setter(value) ==
    << Write(_system_clock_divider, IF value THEN _SYSCLK_DIV_BY_2 ELSE _SYSCLK_DIV_BY_1) >>

\* pll_k setter with the three parts taken as bytes
pll_k_setter_Bytes(value) ==
    << Write(_pll_k1, (value \div (2 ^ 16)) % 64),
       Write(_pll_k2, (value \div (2 ^ 8)) % 512),
       Write(_pll_k3, value % 512) >>

\* pll_k setter: (value >> 18) & 0b111111, (value >> 9) & 0b111111111,
\* value & 0b111111111
pll_k_setter(value) ==
    << Write(_pll_k1, (value \div (2 ^ 18)) % 64),
       Write(_pll_k2, (value \div (2 ^ 9)) % 512),
       Write(_pll_k3, value % 512) >>

\* bit_depth getter
bit_depth(regs) ==
    LET value == WOBits_get(regs, _bit_depth)
    IN  IF value = 3 THEN 32 ELSE 16 + (4 * value)

\* obj.bit_depth = value; // rounds down, as \div does
bit_depth_setter(value) == << Write(_bit_depth, (Min(value, 28) - 16) \div 4) >>

(***************************************************************************)
(* The sample rate setter.                                                 *)
(***************************************************************************)
Rates48k == { 8000, 12000, 16000, 24000, 32000, 48000 }
Rates44k == { 11025, 22050, 44100 }
PLL_K_48k == 3221224    \* 0x3126E8
PLL_K_44k == 8831526    \* 0x86C226

\* the descriptor assignments of the setter, in program order; an
\* unsupported rate runs the first seven and then raises ValueError
sample_rate_writes(value) ==
    << Write(pll, TRUE), Write(clock_fractional_mode, TRUE), Write(clock_from_pll, TRUE),
       Write(pll_prescale_div2, TRUE) >>
    \o system_clock_div2_setter(TRUE)
    \o clock_divider_setter(_base_clock_divider, _BCLKDIV, 4, 1)
    \o clock_divider_setter(_amp_clock_divider, _DCLKDIV, 16, 1)
    \o (IF value \in Rates48k
        THEN << Write(pll_n, 8) >> \o pll_k_setter(PLL_K_48k)
             \o clock_divider_setter(_adc_clock_divider, _ADCDACDIV, 48000, value)
             \o clock_divider_setter(_dac_clock_divider, _ADCDACDIV, 48000, value)
        ELSE IF value \in Rates44k
        THEN << Write(pll_n, 7) >> \o pll_k_setter(PLL_K_44k)
             \o clock_divider_setter(_adc_clock_divider, _ADCDACDIV, 44100, value)
             \o clock_divider_setter(_dac_clock_divider, _ADCDACDIV, 44100, value)
        ELSE << >>)

\* the setter that keeps the value before it has been checked
sample_rate_setter_CacheFirst(regs, cached, value, fail) ==
    LET r == Run(regs, << >>, sample_rate_writes(value), fail)
        e == IF r.err # "none" THEN r.err
             ELSE IF value \in Rates48k \cup Rates44k THEN "none" ELSE "ValueError"
    IN  [registers |-> r.registers, frames |-> r.frames, err |-> e,
         sample_rate |-> << value >>]

\* the setter: the assignments, the ValueError, and only then
\* self._sample_rate = value
sample_rate_setter(regs, cached, value, fail) ==
    LET r == Run(regs, << >>, sample_rate_writes(value), fail)
        e == IF r.err # "none" THEN r.err
             ELSE IF value \in Rates48k \cup Rates44k THEN "none" ELSE "ValueError"
    IN  [registers |-> r.registers, frames |-> r.frames, err |-> e,
         sample_rate |-> IF e = "none" THEN << value >> ELSE cached]

(***************************************************************************)
(* Linear dB controls.  Decibels are kept in eighths of a dB (-17.25 dB is  *)
(* -138), which represents every limit of the source exactly; a float      *)
(* result is the rational num / den (den > 0) it approximates.             *)
(***************************************************************************)
BOOST_GAIN_MIN == -96
BOOST_GAIN_MAX == 48
MIC_GAIN_MIN == -138
MIC_GAIN_MAX == 240
ADC_VOLUME_MIN == -776
ADC_VOLUME_MAX == 240
DAC_VOLUME_MIN == -1016
DAC_VOLUME_MAX == 0
ALC_TARGET_MIN == -180
ALC_TARGET_MAX == -12
ALC_MAX_GAIN_MIN == -96
ALC_MAX_GAIN_MAX == 240
ALC_MIN_GAIN_MIN == -138
ALC_MIN_GAIN_MAX == 198
GATE_THRESHOLD_MIN == -612
GATE_THRESHOLD_MAX == -240
OUTPUT_VOLUME_MIN == -168
OUTPUT_VOLUME_MAX == 0
AMP_VOLUME_MIN == -584
AMP_VOLUME_MAX == 48

Rat(num, den) == [num |-> num, den |-> den]
RatLess(a, b) == a.num * b.den < b.num * a.den

\* adafruit_simplemath.map_range for an integer x: the linear map of
\* [in_min, in_max] onto [out_min, out_max], held inside the output range
map_range(x, in_min, in_max, out_min, out_max) ==
    LET in_range == in_max - in_min
        in_delta == x - in_min
        m  == IF in_range > 0 THEN Rat(in_delta, in_range)
              ELSE IF in_range < 0 THEN Rat(-in_delta, -in_range)
              ELSE IF in_delta # 0 THEN Rat(in_delta, 1)
              ELSE Rat(1, 2)
        mapped == Rat((m.num * (out_max - out_min)) + (out_min * m.den), m.den)
        lo == Rat(Min(out_min, out_max) * m.den, m.den)
        hi == Rat((out_min + out_max - Min(out_min, out_max)) * m.den, m.den)
    IN  IF RatLess(mapped, lo) THEN lo ELSE IF RatLess(hi, mapped) THEN hi ELSE mapped

\* one channel of a control: its code field and its volume-update bit
Channel(d, latch) == [d |-> d, latch |-> latch]
NoLatch == [kind |-> "none", register_address |-> -1]

\* a control as its property pair is written: the setter is
\*   field = (0 if mute and value < in_min
\*            else round(map_range(value, in_min, in_max, out_min, out_max)))
\* followed by the update bits, and the getter is
\*   None if field < none_below else map_range(field, g_in_min, g_in_max,
\*                                             g_out_min, g_out_max)
LinearControl(channels, in_min, in_max, out_min, out_max, mute,
              g_in_min, g_in_max, g_out_min, g_out_max, none_below, combine) ==
    [ channels |-> channels, in_min |-> in_min, in_max |-> in_max,
      out_min |-> out_min, out_max |-> out_max, mute |-> mute,
      g_in_min |-> g_in_min, g_in_max |-> g_in_max,
      g_out_min |-> g_out_min, g_out_max |-> g_out_max,
      none_below |-> none_below, combine |-> combine ]

_left_mic_volume == WOBits(6, _REG_LEFT_INPUT_VOLUME, 0)
_left_mic_volume_set == WOBit(_REG_LEFT_INPUT_VOLUME, 8)
_right_mic_volume == WOBits(6, _REG_RIGHT_INPUT_VOLUME, 0)
_right_mic_volume_set == WOBit(_REG_RIGHT_INPUT_VOLUME, 8)
_left_input2_boost == WOBits(3, _REG_INPUT_BOOST_MIXER_1, 1)
_right_input2_boost == WOBits(3, _REG_INPUT_BOOST_MIXER_2, 1)
_left_input3_boost == WOBits(3, _REG_INPUT_BOOST_MIXER_1, 4)
_right_input3_boost == WOBits(3, _REG_INPUT_BOOST_MIXER_2, 4)
_left_adc_volume == WOBits(8, _REG_LEFT_ADC_VOLUME, 0)
_left_adc_volume_set == WOBit(_REG_LEFT_ADC_VOLUME, 8)
_right_adc_volume == WOBits(8, _REG_RIGHT_ADC_VOLUME, 0)
_right_adc_volume_set == WOBit(_REG_RIGHT_ADC_VOLUME, 8)
_alc_target == WOBits(4, _REG_ALC1, 0)
_alc_max_gain == WOBits(3, _REG_ALC1, 4)
_alc_min_gain == WOBits(3, _REG_ALC2, 4)
_noise_gate_threshold == WOBits(5, _REG_NOISE_GATE, 3)
_left_dac_volume == WOBits(8, _REG_LEFT_DAC_VOLUME, 0)
_left_dac_volume_set == WOBit(_REG_LEFT_DAC_VOLUME, 8)
_right_dac_volume == WOBits(8, _REG_RIGHT_DAC_VOLUME, 0)
_right_dac_volume_set == WOBit(_REG_RIGHT_DAC_VOLUME, 8)
_left_input3_output_volume == WOBits(3, _REG_LEFT_OUT_MIX, 4)
_right_input3_output_volume == WOBits(3, _REG_RIGHT_OUT_MIX, 4)
_left_mic_output_volume == WOBits(3, _REG_BYPASS_1, 4)
_right_mic_output_volume == WOBits(3, _REG_BYPASS_2, 4)
_left_headphone_volume == WOBits(7, _REG_LOUT1_VOLUME, 0)
_left_headphone_volume_set == WOBit(_REG_LOUT1_VOLUME, 8)
_right_headphone_volume == WOBits(7, _REG_ROUT1_VOLUME, 0)
_right_headphone_volume_set == WOBit(_REG_ROUT1_VOLUME, 8)
_left_speaker_volume == WOBits(7, _REG_LOUT2_VOLUME, 0)
_left_speaker_volume_set == WOBit(_REG_LOUT2_VOLUME, 8)
_right_speaker_volume == WOBits(7, _REG_ROUT2_VOLUME, 0)
_right_speaker_volume_set == WOBit(_REG_ROUT2_VOLUME, 8)

left_mic_volume ==
    LinearControl(<< Channel(_left_mic_volume, _left_mic_volume_set) >>,
                  MIC_GAIN_MIN, MIC_GAIN_MAX, 0, 63, FALSE,
                  0, 63, MIC_GAIN_MIN, MIC_GAIN_MAX, 0, "single")

right_mic_volume ==
    LinearControl(<< Channel(_right_mic_volume, _right_mic_volume_set) >>,
                  MIC_GAIN_MIN, MIC_GAIN_MAX, 0, 63, FALSE,
                  0, 63, MIC_GAIN_MIN, MIC_GAIN_MAX, 0, "single")

mic_volume ==
    LinearControl(<< Channel(_left_mic_volume, _left_mic_volume_set),
                     Channel(_right_mic_volume, _right_mic_volume_set) >>,
                  MIC_GAIN_MIN, MIC_GAIN_MAX, 0, 63, FALSE,
                  0, 63, MIC_GAIN_MIN, MIC_GAIN_MAX, 0, "max")

left_input2_boost ==
    LinearControl(<< Channel(_left_input2_boost, NoLatch) >>,
                  BOOST_GAIN_MIN, BOOST_GAIN_MAX, 1, 7, TRUE,
                  1, 7, BOOST_GAIN_MIN, BOOST_GAIN_MAX, 1, "single")

right_input2_boost ==
    LinearControl(<< Channel(_right_input2_boost, NoLatch) >>,
                  BOOST_GAIN_MIN, BOOST_GAIN_MAX, 1, 7, TRUE,
                  1, 7, BOOST_GAIN_MIN, BOOST_GAIN_MAX, 1, "single")

input2_boost ==
    LinearControl(<< Channel(_left_input2_boost, NoLatch),
                     Channel(_right_input2_boost, NoLatch) >>,
                  BOOST_GAIN_MIN, BOOST_GAIN_MAX, 1, 7, TRUE,
                  1, 7, BOOST_GAIN_MIN, BOOST_GAIN_MAX, 1, "max_code")

left_input3_boost ==
    LinearControl(<< Channel(_left_input3_boost, NoLatch) >>,
                  BOOST_GAIN_MIN, BOOST_GAIN_MAX, 1, 7, TRUE,
                  1, 7, BOOST_GAIN_MIN, BOOST_GAIN_MAX, 1, "single")

right_input3_boost ==
    LinearControl(<< Channel(_right_input3_boost, NoLatch) >>,
                  BOOST_GAIN_MIN, BOOST_GAIN_MAX, 1, 7, TRUE,
                  1, 7, BOOST_GAIN_MIN, BOOST_GAIN_MAX, 1, "single")

input3_boost ==
    LinearControl(<< Channel(_left_input3_boost, NoLatch),
                     Channel(_right_input3_boost, NoLatch) >>,
                  BOOST_GAIN_MIN, BOOST_GAIN_MAX, 1, 7, TRUE,
                  1, 7, BOOST_GAIN_MIN, BOOST_GAIN_MAX, 1, "max_code")

left_adc_volume ==
    LinearControl(<< Channel(_left_adc_volume, _left_adc_volume_set) >>,
                  ADC_VOLUME_MIN, ADC_VOLUME_MAX, 1, 255, TRUE,
                  1, 255, ADC_VOLUME_MIN, ADC_VOLUME_MAX, 1, "single")

right_adc_volume ==
    LinearControl(<< Channel(_right_adc_volume, _right_adc_volume_set) >>,
                  ADC_VOLUME_MIN, ADC_VOLUME_MAX, 1, 255, TRUE,
                  1, 255, ADC_VOLUME_MIN, ADC_VOLUME_MAX, 1, "single")

adc_volume ==
    LinearControl(<< Channel(_left_adc_volume, _left_adc_volume_set),
                     Channel(_right_adc_volume, _right_adc_volume_set) >>,
                  ADC_VOLUME_MIN, ADC_VOLUME_MAX, 1, 255, TRUE,
                  1, 255, ADC_VOLUME_MIN, ADC_VOLUME_MAX, 1, "max")

alc_target ==
    LinearControl(<< Channel(_alc_target, NoLatch) >>,
                  ALC_TARGET_MIN, ALC_TARGET_MAX, 0, 15, FALSE,
                  0, 15, ALC_TARGET_MIN, ALC_TARGET_MAX, 0, "single")

alc_max_gain ==
    LinearControl(<< Channel(_alc_max_gain, NoLatch) >>,
                  ALC_MAX_GAIN_MIN, ALC_MAX_GAIN_MAX, 0, 7, FALSE,
                  0, 7, ALC_MAX_GAIN_MIN, ALC_MAX_GAIN_MAX, 0, "single")

alc_min_gain ==
    LinearControl(<< Channel(_alc_min_gain, NoLatch) >>,
                  ALC_MIN_GAIN_MIN, ALC_MIN_GAIN_MAX, 0, 7, FALSE,
                  0, 7, ALC_MIN_GAIN_MIN, ALC_MIN_GAIN_MAX, 0, "single")

noise_gate_threshold ==
    LinearControl(<< Channel(_noise_gate_threshold, NoLatch) >>,
                  GATE_THRESHOLD_MIN, GATE_THRESHOLD_MAX, 0, 31, FALSE,
                  0, 31, GATE_THRESHOLD_MIN, GATE_THRESHOLD_MAX, 0, "single")

left_dac_volume ==
    LinearControl(<< Channel(_left_dac_volume, _left_dac_volume_set) >>,
                  DAC_VOLUME_MIN, DAC_VOLUME_MAX, 1, 255, FALSE,
                  1, 255, DAC_VOLUME_MIN, DAC_VOLUME_MAX, 0, "single")

right_dac_volume ==
    LinearControl(<< Channel(_right_dac_volume, _right_dac_volume_set) >>,
                  DAC_VOLUME_MIN, DAC_VOLUME_MAX, 1, 255, FALSE,
                  1, 255, DAC_VOLUME_MIN, DAC_VOLUME_MAX, 0, "single")

dac_volume ==
    LinearControl(<< Channel(_left_dac_volume, _left_dac_volume_set),
                     Channel(_right_dac_volume, _right_dac_volume_set) >>,
                  DAC_VOLUME_MIN, DAC_VOLUME_MAX, 1, 255, FALSE,
                  1, 255, DAC_VOLUME_MIN, DAC_VOLUME_MAX, 0, "max")

\* left_input3_output_volume with the getter's scale the wrong way round
left_input3_output_volume_Reversed ==
    LinearControl(<< Channel(_left_input3_output_volume, NoLatch) >>,
                  OUTPUT_VOLUME_MIN, OUTPUT_VOLUME_MAX, 7, 0, FALSE,
                  0, 7, OUTPUT_VOLUME_MIN, OUTPUT_VOLUME_MAX, 0, "single")

left_input3_output_volume ==
    LinearControl(<< Channel(_left_input3_output_volume, NoLatch) >>,
                  OUTPUT_VOLUME_MIN, OUTPUT_VOLUME_MAX, 7, 0, FALSE,
                  0, 7, OUTPUT_VOLUME_MAX, OUTPUT_VOLUME_MIN, 0, "single")

right_input3_output_volume ==
    LinearControl(<< Channel(_right_input3_output_volume, NoLatch) >>,
                  OUTPUT_VOLUME_MIN, OUTPUT_VOLUME_MAX, 7, 0, FALSE,
                  0, 7, OUTPUT_VOLUME_MAX, OUTPUT_VOLUME_MIN, 0, "single")

input3_output_volume ==
    LinearControl(<< Channel(_left_input3_output_volume, NoLatch),
                     Channel(_right_input3_output_volume, NoLatch) >>,
                  OUTPUT_VOLUME_MIN, OUTPUT_VOLUME_MAX, 7, 0, FALSE,
                  0, 7, OUTPUT_VOLUME_MAX, OUTPUT_VOLUME_MIN, 0, "max")

left_mic_output_volume ==
    LinearControl(<< Channel(_left_mic_output_volume, NoLatch) >>,
                  OUTPUT_VOLUME_MIN, OUTPUT_VOLUME_MAX, 7, 0, FALSE,
                  0, 7, OUTPUT_VOLUME_MAX, OUTPUT_VOLUME_MIN, 0, "single")

right_mic_output_volume ==
    LinearControl(<< Channel(_right_mic_output_volume, NoLatch) >>,
                  OUTPUT_VOLUME_MIN, OUTPUT_VOLUME_MAX, 7, 0, FALSE,
                  0, 7, OUTPUT_VOLUME_MAX, OUTPUT_VOLUME_MIN, 0, "single")

mic_output_volume ==
    LinearControl(<< Channel(_left_mic_output_volume, NoLatch),
                     Channel(_right_mic_output_volume, NoLatch) >>,
                  OUTPUT_VOLUME_MIN, OUTPUT_VOLUME_MAX, 7, 0, FALSE,
                  0, 7, OUTPUT_VOLUME_MAX, OUTPUT_VOLUME_MIN, 0, "max")

left_headphone_volume ==
    LinearControl(<< Channel(_left_headphone_volume, _left_headphone_volume_set) >>,
                  AMP_VOLUME_MIN, AMP_VOLUME_MAX, 48, 127, TRUE,
                  48, 127, AMP_VOLUME_MIN, AMP_VOLUME_MAX, 48, "single")

right_headphone_volume ==
    LinearControl(<< Channel(_right_headphone_volume, _right_headphone_volume_set) >>,
                  AMP_VOLUME_MIN, AMP_VOLUME_MAX, 48, 127, TRUE,
                  48, 127, AMP_VOLUME_MIN, AMP_VOLUME_MAX, 48, "single")

headphone_volume ==
    LinearControl(<< Channel(_left_headphone_volume, _left_headphone_volume_set),
                     Channel(_right_headphone_volume, _right_headphone_volume_set) >>,
                  AMP_VOLUME_MIN, AMP_VOLUME_MAX, 48, 127, TRUE,
                  48, 127, AMP_VOLUME_MIN, AMP_VOLUME_MAX, 48, "none_aware")

left_speaker_volume ==
    LinearControl(<< Channel(_left_speaker_volume, NoLatch) >>,
                  AMP_VOLUME_MIN, AMP_VOLUME_MAX, 48, 127, TRUE,
                  48, 127, AMP_VOLUME_MIN, AMP_VOLUME_MAX, 48, "single")

right_speaker_volume ==
    LinearControl(<< Channel(_right_speaker_volume, _right_speaker_volume_set) >>,
                  AMP_VOLUME_MIN, AMP_VOLUME_MAX, 48, 127, TRUE,
                  48, 127, AMP_VOLUME_MIN, AMP_VOLUME_MAX, 48, "single")

speaker_volume ==
    LinearControl(<< Channel(_left_speaker_volume, _left_speaker_volume_set),
                     Channel(_right_speaker_volume, _right_speaker_volume_set) >>,
                  AMP_VOLUME_MIN, AMP_VOLUME_MAX, 48, 127, TRUE,
                  48, 127, AMP_VOLUME_MIN, AMP_VOLUME_MAX, 48, "none_aware")

\* the descriptor assignments of a linear setter, in program order: the code
\* to every channel's field, then True to every channel's update bit
linear_setter(c, value) ==
    LET code == IF c.mute /\ value < c.in_min THEN 0
                ELSE LET m == map_range(value, c.in_min, c.in_max, c.out_min, c.out_max)
                     IN  round(m.num, m.den)
        fields  == [i \in 1 .. Len(c.channels) |-> Write(c.channels[i].d, code)]
        latched == SelectSeq(c.channels, LAMBDA ch : ch.latch.kind = "bit")
        latches == [i \in 1 .. Len(latched) |-> Write(latched[i].latch, TRUE)]
    IN  fields \o latches

\* what a getter returns: a level, None, or the exception it raises
Level(q) == [err |-> "none", none |-> FALSE, num |-> q.num, den |-> q.den]
NoneLevel == [err |-> "none", none |-> TRUE, num |-> 0, den |-> 1]
Raises(e) == [err |-> e, none |-> FALSE, num |-> 0, den |-> 1]

\* the getter of one channel
channel_getter(regs, c, i) ==
    LET value == WOBits_get(regs, c.channels[i].d)
    IN  IF value < c.none_below THEN NoneLevel
        ELSE Level(map_range(value, c.g_in_min, c.g_in_max, c.g_out_min, c.g_out_max))

\* max(left, right) of Python: a TypeError when an operand is None
PyMax(l, r) ==
    IF l.none \/ r.none THEN Raises("TypeError")
    ELSE IF RatLess(Rat(l.num, l.den), Rat(r.num, r.den)) THEN r ELSE l

\* the getter of a control
linear_getter(regs, c) ==
    IF c.combine = "single" THEN channel_getter(regs, c, 1)
    ELSE IF c.combine = "max"
    THEN PyMax(channel_getter(regs, c, 1), channel_getter(regs, c, 2))
    ELSE IF c.combine = "max_code"
    THEN LET l == WOBits_get(regs, c.channels[1].d)
             r == WOBits_get(regs, c.channels[2].d)
             value == IF l < r THEN r ELSE l
         IN  IF value = 0 THEN NoneLevel
             ELSE Level(map_range(value, c.g_in_min, c.g_in_max, c.g_out_min, c.g_out_max))
    ELSE LET left  == channel_getter(regs, c, 1)
             right == channel_getter(regs, c, 2)
         IN  IF left.none \/ right.none
             THEN (IF left.none /\ right.none THEN NoneLevel
                   ELSE IF left.none THEN right ELSE left)
             ELSE PyMax(left, right)

(***************************************************************************)
(* The microphone mute: the per-channel setters also set the volume update  *)
(* bit of their register, the stereo setter writes the two mute bits only.  *)
(***************************************************************************)

_left_mic_mute == WOBit(_REG_LEFT_INPUT_VOLUME, 7)
_right_mic_mute == WOBit(_REG_RIGHT_INPUT_VOLUME, 7)

left_mic_mute_setter(value) ==
    << Write(_left_mic_mute, value), Write(_left_mic_volume_set, TRUE) >>

right_mic_mute_setter(value) ==
    << Write(_right_mic_mute, value), Write(_right_mic_volume_set, TRUE) >>

\* self._left_mic_mute = self._right_mic_mute = value assigns left first
mic_mute_setter(value) ==
    << Write(_left_mic_mute, value), Write(_right_mic_mute, value) >>

\* the setter behind obj.<which>mic_mute
mic_mute_setters(which, value) ==
    IF which = "left_" THEN left_mic_mute_setter(value)
    ELSE IF which = "right_" THEN right_mic_mute_setter(value)
    ELSE mic_mute_setter(value)

(***************************************************************************)
(* Table controls: the mic boost gain and the speaker DC/AC boost.  Gains  *)
(* are kept in tenths of a dB (2.1 dB is 21).                              *)
(***************************************************************************)
_REG_ADCL_SIGNAL_PATH == 32
_REG_ADCR_SIGNAL_PATH == 33
_REG_CLASS_D_CONTROL_3 == 51

_MIC_BOOST_GAIN == << 0, 130, 200, 290 >>
_SPEAKER_BOOST_GAIN == << 0, 21, 29, 36, 45, 51 >>

\* the loop of both lookups: for i in reversed(range(len(table))): if value >=
\* table[i]: return i; and return 0 after the loop
RECURSIVE reversed_lookup(_, _, _)
reversed_lookup(table, value, i) ==
    IF i < 0 THEN 0
    ELSE IF value >= table[i + 1] THEN i
    ELSE reversed_lookup(table, value, i - 1)

\* the lookup that stops at the first entry from the front that is >= value
_get_mic_boost_gain_Ceiling(value) ==
    IF \E i \in 1 .. Len(_MIC_BOOST_GAIN) : _MIC_BOOST_GAIN[i] >= value
    THEN (CHOOSE i \in 1 .. Len(_MIC_BOOST_GAIN) :
              /\ _MIC_BOOST_GAIN[i] >= value
              /\ \A j \in 1 .. (i - 1) : _MIC_BOOST_GAIN[j] < value) - 1
    ELSE Len(_MIC_BOOST_GAIN) - 1

_get_mic_boost_gain(value) ==
    reversed_lookup(_MIC_BOOST_GAIN, value, Len(_MIC_BOOST_GAIN) - 1)

_get_speaker_boost_gain(value) ==
    reversed_lookup(_SPEAKER_BOOST_GAIN, value, Len(_SPEAKER_BOOST_GAIN) - 1)

\* a table control: its code field(s) and its table
TableControl(fields, table) == [fields |-> fields, table |-> table]

left_mic_boost_gain ==
    TableControl(<< WOBits(2, _REG_ADCL_SIGNAL_PATH, 4) >>, _MIC_BOOST_GAIN)
right_mic_boost_gain ==
    TableControl(<< WOBits(2, _REG_ADCR_SIGNAL_PATH, 4) >>, _MIC_BOOST_GAIN)
mic_boost_gain ==
    TableControl(<< WOBits(2, _REG_ADCL_SIGNAL_PATH, 4),
                    WOBits(2, _REG_ADCR_SIGNAL_PATH, 4) >>, _MIC_BOOST_GAIN)
speaker_dc_gain ==
    TableControl(<< WOBits(3, _REG_CLASS_D_CONTROL_3, 3) >>, _SPEAKER_BOOST_GAIN)
speaker_ac_gain ==
    TableControl(<< WOBits(3, _REG_CLASS_D_CONTROL_3, 0) >>, _SPEAKER_BOOST_GAIN)

\* the descriptor assignments of a table setter: the looked-up index to
\* every field
table_setter(c, value) ==
    LET code == IF c.table = _MIC_BOOST_GAIN THEN _get_mic_boost_gain(value)
                ELSE _get_speaker_boost_gain(value)
    IN  [i \in 1 .. Len(c.fields) |-> Write(c.fields[i], code)]

\* the getter: table[field], an IndexError beyond the table; the stereo
\* control returns max(left, right)
table_getter(regs, c) ==
    LET code(i) == WOBits_get(regs, c.fields[i])
    IN  IF \E i \in 1 .. Len(c.fields) : code(i) >= Len(c.table)
        THEN [err |-> "IndexError", value |-> 0]
        ELSE IF Len(c.fields) = 1 THEN [err |-> "none", value |-> c.table[code(1) + 1]]
        ELSE LET l == c.table[code(1) + 1]
                 r == c.table[code(2) + 1]
             IN  [err |-> "none", value |-> IF l < r THEN r ELSE l]

(***************************************************************************)
(* ALC times.  A time is kept in whole units of the control: 10 us for the *)
(* hold time (0.00267 s is 267), 1 ms for the decay and attack times.      *)
(***************************************************************************)
_REG_ALC3 == 19
ALC_ATTACK_TIME_MIN == 6
ALC_ATTACK_TIME_MAX == 6140
ALC_DECAY_TIME_MIN == 24
ALC_DECAY_TIME_MAX == 24580
ALC_HOLD_TIME_MIN == 267
ALC_HOLD_TIME_MAX == 4369100
_ALC_DECAY_MAX == 10
_ALC_ATTACK_MAX == 10

\* adafruit_simplemath.constrain
constrain(x, out_min, out_max) ==
    LET m == Min(x, out_max)
    IN  IF out_min < m THEN m ELSE out_min

\* floor(log2(num / den)) for num, den > 0
RECURSIVE floor_log2(_, _)
floor_log2(num, den) ==
    IF num >= 2 * den THEN floor_log2(num, 2 * den) + 1
    ELSE IF num < den THEN floor_log2(2 * num, den) - 1
    ELSE 0

\* a / b > [t; 2, 2, 2, ...], the continued fraction that is sqrt(2) for
\* t = 1 and 1 + sqrt(2) for t = 2 (a / b is rational, so never equal)
RECURSIVE AboveSqrt2(_, _, _)
AboveSqrt2(a, b, t) ==
    IF a \div b # t THEN a \div b > t
    ELSE IF a % b = 0 THEN FALSE
    ELSE ~AboveSqrt2(b, a % b, 2)

\* round(math.log(num / den, 2.0)) for num, den > 0: the integer n with
\* 2^(n - 1/2) < num / den < 2^(n + 1/2)
round_log2(num, den) ==
    LET k == floor_log2(num, den)
        a == IF k >= 0 THEN num ELSE num * (2 ^ (-k))
        b == IF k >= 0 THEN den * (2 ^ k) ELSE den
    IN  IF AboveSqrt2(a, b, 1) THEN k + 1 ELSE k

\* an ALC time control: its field, its limits, whether 0 is a value of its
\* own with code 0 (the codes of the others then start at 1), and the cap
\* min(..., code_max) of its setter (-1: the setter has none)
TimeControl(d, t_min, t_max, zero, code_max) ==
    [d |-> d, t_min |-> t_min, t_max |-> t_max, zero |-> zero, code_max |-> code_max]

alc_hold_time ==
    TimeControl(WOBits(4, _REG_ALC2, 0), ALC_HOLD_TIME_MIN, ALC_HOLD_TIME_MAX, TRUE, -1)
alc_decay_time ==
    TimeControl(WOBits(4, _REG_ALC3, 4), ALC_DECAY_TIME_MIN, ALC_DECAY_TIME_MAX, FALSE,
                _ALC_DECAY_MAX)
alc_attack_time ==
    TimeControl(WOBits(4, _REG_ALC3, 0), ALC_ATTACK_TIME_MIN, ALC_ATTACK_TIME_MAX, FALSE,
                _ALC_ATTACK_MAX)

\* the setter with the `if value > 0.0 else 0` of the hold time left out
time_setter_NoZero(c, value) ==
    LET num == constrain(value, c.t_min, c.t_max) - c.t_min
        n   == round_log2(num, c.t_min) + (IF c.zero THEN 1 ELSE 0)
    IN  IF num = 0 THEN [err |-> "ValueError", writes |-> << >>]
        ELSE [err |-> "none",
              writes |-> << Write(c.d, IF c.code_max >= 0 THEN Min(n, c.code_max) ELSE n) >>]

\* the setter: round(math.log((constrain(value, MIN, MAX) - MIN) / MIN, 2.0)),
\* plus 1.0 inside round for the hold time, whose code is 0 when value is not
\* > 0.0; min(..., code_max) for the other two.  math.log(0.0, 2.0) raises
\* ValueError before the descriptor is assigned.
time_setter(c, value) ==
    IF c.zero /\ ~(value > 0) THEN [err |-> "none", writes |-> << Write(c.d, 0) >>]
    ELSE LET num == constrain(value, c.t_min, c.t_max) - c.t_min
             n   == round_log2(num, c.t_min) + (IF c.zero THEN 1 ELSE 0)
         IN  IF num = 0 THEN [err |-> "ValueError", writes |-> << >>]
             ELSE [err |-> "none",
                   writes |-> << Write(c.d, IF c.code_max >= 0 THEN Min(n, c.code_max)
                                            ELSE n) >>]

\* the getter: MIN * pow(2, field), and for the hold time 0.0 for field 0
\* and MIN * pow(2, field - 1) otherwise
time_getter(regs, c) ==
    LET value == WOBits_get(regs, c.d)
    IN  IF c.zero THEN (IF value = 0 THEN 0 ELSE c.t_min * (2 ^ (value - 1)))
        ELSE c.t_min * (2 ^ value)

(***************************************************************************)
(* The AVDD supply voltage, in tenths of a volt.                           *)
(***************************************************************************)
_REG_ADDITIONAL_CONTROL_1 == 23
_vsel == WOBits(2, _REG_ADDITIONAL_CONTROL_1, 6)

\* power_supply setter: self._vsel = (constrain(value, 2.7, 3.3) - 2.7) // 0.6
\* * 2 + 1.  The right-hand side is a float for every argument (2.7 and 0.6
\* are floats), and `value <<= self.lowest_bit` in WOBits._set raises
\* TypeError for a float before the cell is touched, so nothing is assigned.
power_supply_setter(value) == [err |-> "TypeError", writes |-> << >>]

(***************************************************************************)
(* Construction and reset.                                                 *)
(***************************************************************************)
None == << >>

\* _reset_registers with the address bits left out
_reset_registers_NoAddress(regs) ==
    [i \in RegIndex |-> to_bytes(_REG_DEFAULTS[i + 1])]

\* _reset_registers: reg[:] = default.to_bytes(2, "big"); reg[0] |= i << 1
_reset_registers(regs) ==
    [i \in RegIndex |->
        LET reg == to_bytes(_REG_DEFAULTS[i + 1])
        IN  << BitOr(reg[1], i * 2, 8), reg[2] >>]

\* reset() with the two statements in the other order
reset_CopyFirst(regs, fail) ==
    Run(_reset_registers(regs), << >>, << Write(_reset, TRUE) >>, fail)

\* reset(): self._reset = True, then self._reset_registers()
reset(regs, fail) ==
    LET r == Run(regs, << >>, << Write(_reset, TRUE) >>, fail)
    IN  IF r.err = "none"
        THEN [r EXCEPT !.registers = _reset_registers(r.registers)]
        ELSE r

\* __init__ with the last two assignments in the other order
Constructed_VmidFirst ==
    LET zero == [i \in RegIndex |-> to_bytes(0)]
        r0   == _reset_registers(zero)
        r1   == reset(r0, 0)
    IN  Run(r1.registers, r1.frames,
            << Write(vmid, PLAYBACK), Write(power, TRUE) >>, 0)

\* __init__: zeroed bytearrays, _reset_registers(), reset(), power = True,
\* vmid = Vmid_Mode.PLAYBACK
Constructed ==
    LET zero == [i \in RegIndex |-> to_bytes(0)]
        r0   == _reset_registers(zero)
        r1   == reset(r0, 0)
    IN  Run(r1.registers, r1.frames,
            << Write(power, TRUE), Write(vmid, PLAYBACK) >>, 0)

(***************************************************************************)
(* The WM8960 class of adafruit_wm8960.py, the driver's other variant.  It *)
(* keeps the 9-bit register values in _registerLocalCopy and transmits a   *)
(* register before it stores it.  A driver is the record of its local copy *)
(* and the frames it has transmitted; decibels are in eighths of a dB.     *)
(***************************************************************************)
WM8960_REGISTER_DEFAULTS ==
    << 151, 151,   0,   0,   0,   8,   0,  10, 448,   0, 255, 255,   0,   0,   0,   0,
         0, 123, 256,  50,   0, 195, 195, 448,   0,   0,   0,   0,   0,   0,   0,   0,
       256, 256,  80,   0,   0,  80,   0,   0,   0,   0,  64,   0,   0,  80,  80,   0,
         2,  55,   0, 128,   8,  49,  38, 233 >>

WM8960_REG_PWR_MGMT_1 == 25
WM8960_VMIDSEL_2X50KOHM == 1

WM8960_PGA_GAIN_MIN == -138
WM8960_PGA_GAIN_MAX == 240
WM8960_PGA_GAIN_OFFSET == 138
WM8960_PGA_GAIN_STEPSIZE == 6
WM8960_HP_GAIN_MIN == -584
WM8960_HP_GAIN_MAX == 48
WM8960_HP_GAIN_OFFSET == 968
WM8960_HP_GAIN_STEPSIZE == 8
WM8960_SPEAKER_GAIN_MIN == -584
WM8960_SPEAKER_GAIN_MAX == 48
WM8960_SPEAKER_GAIN_OFFSET == 968
WM8960_SPEAKER_GAIN_STEPSIZE == 8
WM8960_ADC_GAIN_MIN == -776
WM8960_ADC_GAIN_MAX == 240
WM8960_ADC_GAIN_OFFSET == 780
WM8960_ADC_GAIN_STEPSIZE == 4
WM8960_DAC_GAIN_MIN == -776
WM8960_DAC_GAIN_MAX == 240
WM8960_DAC_GAIN_OFFSET == 780
WM8960_DAC_GAIN_STEPSIZE == 4

\* writeRegister: _buf[0] = reg << 1 | value >> 8, _buf[1] = value & 0xff,
\* i2c.write(_buf), and only then _registerLocalCopy[reg] = value; `fail`
\* says that the write raises
writeRegister(s, reg, value, fail) ==
    IF s.err # "none" THEN s
    ELSE IF fail THEN [s EXCEPT !.err = "OSError"]
    ELSE [ copy   |-> [s.copy EXCEPT ![reg] = value],
           frames |-> Append(s.frames, << BitOr(reg * 2, value \div 256, 8), value % 256 >>),
           err    |-> "none" ]

\* _writeRegisterBit: regvalue |= 1 << bitNumber or regvalue &= ~(1 << bitNumber)
_writeRegisterBit(s, registerAddress, bitNumber, bitValue, fail) ==
    LET regvalue == s.copy[registerAddress]
        has      == BitOf(regvalue, bitNumber)
    IN  writeRegister(s, registerAddress,
                      IF bitValue THEN regvalue + ((1 - has) * (2 ^ bitNumber))
                      ELSE regvalue - (has * (2 ^ bitNumber)),
                      fail)

\* _writeRegisterMultiBits: the bits settingLsbNum .. settingMsbNum cleared,
\* then regvalue |= setting << settingLsbNum
_writeRegisterMultiBits(s, registerAddress, settingMsbNum, settingLsbNum, setting) ==
    LET regvalue  == s.copy[registerAddress]
        numOfBits == (settingMsbNum - settingLsbNum) + 1
        cleared   == regvalue
                       - (((regvalue \div (2 ^ settingLsbNum)) % (2 ^ numOfBits))
                              * (2 ^ settingLsbNum))
    IN  writeRegister(s, registerAddress,
                      BitOr(cleared, setting * (2 ^ settingLsbNum), 16), FALSE)

\* convertDBtoSetting: dB limited to maxDB, and to minDB for the PGA or to
\* minDB - stepSize for the others; int(round((dB + offset) / stepSize)) & 0xff
convertDBtoSetting(dB, offset, stepSize, minDB, maxDB) ==
    LET capped  == IF dB > maxDB THEN maxDB ELSE dB
        floored == IF minDB = WM8960_PGA_GAIN_MIN
                   THEN (IF capped < minDB THEN minDB ELSE capped)
                   ELSE (IF capped < minDB - stepSize THEN minDB - stepSize ELSE capped)
    IN  round(floored + offset, stepSize) % 256

\* a dB setter and the volume setter it calls: the registers written, the top
\* bit of their volume field, the limit the volume setter puts on its
\* argument (-1: none), the arguments given to convertDBtoSetting, and whether
\* both fields are written before the first update bit
LegacySetter(regs, msb, limit, offset, stepSize, minDB, maxDB, together) ==
    [ regs |-> regs, msb |-> msb, limit |-> limit, offset |-> offset,
      stepSize |-> stepSize, minDB |-> minDB, maxDB |-> maxDB, together |-> together ]

setLINVOLDB ==
    LegacySetter(<< _REG_LEFT_INPUT_VOLUME >>, 5, 63, WM8960_PGA_GAIN_OFFSET,
                 WM8960_PGA_GAIN_STEPSIZE, WM8960_PGA_GAIN_MIN, WM8960_PGA_GAIN_MAX, FALSE)
setRINVOLDB ==
    LegacySetter(<< _REG_RIGHT_INPUT_VOLUME >>, 5, 63, WM8960_PGA_GAIN_OFFSET,
                 WM8960_PGA_GAIN_STEPSIZE, WM8960_PGA_GAIN_MIN, WM8960_PGA_GAIN_MAX, FALSE)
setAdcLeftDigitalVolumeDB ==
    LegacySetter(<< _REG_LEFT_ADC_VOLUME >>, 7, -1, WM8960_ADC_GAIN_OFFSET,
                 WM8960_ADC_GAIN_STEPSIZE, WM8960_ADC_GAIN_MIN, WM8960_ADC_GAIN_MAX, FALSE)
setAdcRightDigitalVolumeDB ==
    LegacySetter(<< _REG_RIGHT_ADC_VOLUME >>, 7, -1, WM8960_ADC_GAIN_OFFSET,
                 WM8960_ADC_GAIN_STEPSIZE, WM8960_ADC_GAIN_MIN, WM8960_ADC_GAIN_MAX, FALSE)
setAdcDigitalVolumeDB ==
    LegacySetter(<< _REG_LEFT_ADC_VOLUME, _REG_RIGHT_ADC_VOLUME >>, 7, -1,
                 WM8960_ADC_GAIN_OFFSET, WM8960_ADC_GAIN_STEPSIZE, WM8960_ADC_GAIN_MIN,
                 WM8960_ADC_GAIN_MAX, FALSE)
setDacLeftDigitalVolumeDB ==
    LegacySetter(<< _REG_LEFT_DAC_VOLUME >>, 7, -1, WM8960_DAC_GAIN_OFFSET,
                 WM8960_DAC_GAIN_STEPSIZE, WM8960_DAC_GAIN_MIN, WM8960_DAC_GAIN_MAX, FALSE)
setDacRightDigitalVolumeDB ==
    LegacySetter(<< _REG_RIGHT_DAC_VOLUME >>, 7, -1, WM8960_DAC_GAIN_OFFSET,
                 WM8960_DAC_GAIN_STEPSIZE, WM8960_DAC_GAIN_MIN, WM8960_DAC_GAIN_MAX, FALSE)
setHeadphoneVolumeDB ==
    LegacySetter(<< _REG_LOUT1_VOLUME, _REG_ROUT1_VOLUME >>, 6, 127, WM8960_HP_GAIN_OFFSET,
                 WM8960_HP_GAIN_STEPSIZE, WM8960_HP_GAIN_MIN, WM8960_HP_GAIN_MAX, TRUE)
setSpeakerVolumeDB ==
    LegacySetter(<< _REG_LOUT2_VOLUME, _REG_ROUT2_VOLUME >>, 6, 127,
                 WM8960_SPEAKER_GAIN_OFFSET, WM8960_SPEAKER_GAIN_STEPSIZE,
                 WM8960_SPEAKER_GAIN_MIN, WM8960_SPEAKER_GAIN_MAX, TRUE)

\* the volume setter f calls with `volume`: per register the field and then
\* bit 8, or (headphone, speaker) both fields and then both update bits
RECURSIVE legacy_fields(_, _, _, _, _)
legacy_fields(s, f, volume, i, latch) ==
    IF i > Len(f.regs) THEN s
    ELSE LET s1 == _writeRegisterMultiBits(s, f.regs[i], f.msb, 0, volume)
             s2 == IF latch THEN _writeRegisterBit(s1, f.regs[i], 8, TRUE, FALSE) ELSE s1
         IN  legacy_fields(s2, f, volume, i + 1, latch)

RECURSIVE legacy_latches(_, _, _)
legacy_latches(s, f, i) ==
    IF i > Len(f.regs) THEN s
    ELSE legacy_latches(_writeRegisterBit(s, f.regs[i], 8, TRUE, FALSE), f, i + 1)

legacy_volume_setter(s, f, volume) ==
    LET limited == IF f.limit >= 0 /\ volume > f.limit THEN f.limit ELSE volume
    IN  IF f.together THEN legacy_latches(legacy_fields(s, f, limited, 1, FALSE), f, 1)
        ELSE legacy_fields(s, f, limited, 1, TRUE)

\* the dB setter f called with dB
legacy_db_setter(s, f, dB) ==
    legacy_volume_setter(s, f, convertDBtoSetting(dB, f.offset, f.stepSize, f.minDB, f.maxDB))

\* WM8960.reset(): _writeRegisterBit(WM8960_REG_RESET, 7, 1), then the local
\* copy is overwritten with WM8960_REGISTER_DEFAULTS
WM8960_reset(s, fail) ==
    LET w == _writeRegisterBit(s, _REG_RESET, 7, TRUE, fail)
    IN  IF w.err # "none" THEN w
        ELSE [w EXCEPT !.copy = [i \in RegIndex |-> WM8960_REGISTER_DEFAULTS[i + 1]]]

\* WM8960.__init__: a zeroed local copy, reset(), enableVREF(), enableVMID()
WM8960_init ==
    LET zero == [copy |-> [i \in RegIndex |-> 0], frames |-> << >>, err |-> "none"]
        r    == WM8960_reset(zero, FALSE)
        vref == _writeRegisterBit(r, WM8960_REG_PWR_MGMT_1, 6, TRUE, FALSE)
    IN  _writeRegisterMultiBits(vref, WM8960_REG_PWR_MGMT_1, 8, 7, WM8960_VMIDSEL_2X50KOHM)

NoDescriptor == [kind |-> "none", register_address |-> -1]

Init ==
    /\ registers = Constructed.registers
    /\ frames = Constructed.frames
    /\ sample_rate = None
    /\ last = [op |-> "init", d |-> NoDescriptor, value |-> 0, fail |-> 0, err |-> "none"]
    /\ nops = 0
    /\ pending = << >>
    /\ _input = 0
    /\ _gain = 0
    /\ _registerLocalCopy = WM8960_init.copy

(***************************************************************************)
(* Operations.                                                             *)
(***************************************************************************)
\* the single-bit and bit-range controls that are assigned directly
BitControls == { power, pll, clock_from_pll, adc_channel_swap }

BitsControls == { vmid, pll_n, _adc_clock_divider, _bit_depth, _pll_k2 }

\* the codes assigned to a bit range: inside the field, and beyond it
RawValues(d) ==
    (0 .. Min((2 ^ d.num_bits) - 1, MaxRaw))
        \cup { (2 ^ d.num_bits) - 1 }
        \cup { 2 ^ k : k \in d.num_bits .. (d.num_bits + MaxOver - 1) }

\* obj.<control> = value for a WOBit or WOBits control
Assign(d, value, fail) ==
    /\ nops < MaxOps
    /\ \E r \in { Run(registers, << >>, << Write(d, value) >>, fail) } :
           /\ registers' = r.registers
           /\ frames' = r.frames
           /\ last' = [op |-> d.kind, d |-> d, value |-> value, fail |-> fail, err |-> r.err]
    /\ nops' = nops + 1
    /\ UNCHANGED << sample_rate, pending, _input, _gain, _registerLocalCopy >>

AssignBit == \E d \in BitControls, value \in BOOLEAN : Assign(d, value, 0)

AssignBits == \E d \in BitsControls : \E value \in RawValues(d) : Assign(d, value, 0)

\* obj.reset()
Reset ==
    /\ nops < MaxOps
    /\ \E r \in { reset(registers, 0) } :
           /\ registers' = r.registers
           /\ frames' = r.frames
           /\ last' = [op |-> "reset", d |-> NoDescriptor, value |-> 0, fail |-> 0,
                       err |-> r.err]
    /\ nops' = nops + 1
    /\ UNCHANGED << sample_rate, pending, _input, _gain, _registerLocalCopy >>

\* the rates assigned: the nine supported ones and one that is not
SampleRates == Rates48k \cup Rates44k \cup { 12345 }

\* obj.sample_rate = value
SetSampleRate ==
    \E value \in SampleRates :
        /\ nops < MaxOps
        /\ \E r \in { sample_rate_setter(registers, sample_rate, value, 0) } :
               /\ registers' = r.registers
               /\ frames' = r.frames
               /\ sample_rate' = r.sample_rate
               /\ last' = [op |-> "sample_rate", d |-> NoDescriptor, value |-> value,
                           fail |-> 0, err |-> r.err]
        /\ nops' = nops + 1
        /\ UNCHANGED << pending, _input, _gain, _registerLocalCopy >>

Next == AssignBit \/ AssignBits \/ Reset \/ SetSampleRate

Spec == Init /\ [][Next]_vars

NextRate == SetSampleRate \/ Reset

\* a driver to which only sample rates are assigned and reset() is applied
SpecRate == Init /\ [][NextRate]_vars

\* a transport write that raises during obj.<control> = value
AssignFail ==
    \E d \in BitControls \cup BitsControls :
        \E value \in (IF d.kind = "bit" THEN BOOLEAN ELSE RawValues(d)) : Assign(d, value, 1)

\* a transport write that raises during obj.reset()
ResetFail ==
    /\ nops < MaxOps
    /\ \E r \in { reset(registers, 1) } :
           /\ registers' = r.registers
           /\ frames' = r.frames
           /\ last' = [op |-> "reset", d |-> NoDescriptor, value |-> 0, fail |-> 1,
                       err |-> r.err]
    /\ nops' = nops + 1
    /\ UNCHANGED << sample_rate, pending, _input, _gain, _registerLocalCopy >>

\* reset() of a WM8960 of adafruit_wm8960.py, on a transport whose write
\* may raise
LegacyReset ==
    \E fail \in BOOLEAN :
        /\ nops < MaxOps
        /\ \E s \in { WM8960_reset([copy |-> _registerLocalCopy, frames |-> << >>,
                                    err |-> "none"], fail) } :
               /\ _registerLocalCopy' = s.copy
               /\ frames' = s.frames
               /\ last' = [op |-> "WM8960.reset", d |-> NoDescriptor, value |-> 0,
                           fail |-> IF fail THEN 1 ELSE 0, err |-> s.err]
        /\ nops' = nops + 1
        /\ UNCHANGED << registers, sample_rate, pending, _input, _gain >>

NextFail == Next \/ AssignFail \/ ResetFail \/ LegacyReset

\* the driver on a transport whose writes may raise
SpecFail == Init /\ [][NextFail]_vars

\* the linear controls, per channel and stereo
LinearControls ==
    { left_mic_volume, right_mic_volume, mic_volume,
      left_input2_boost, right_input2_boost, input2_boost,
      left_input3_boost, right_input3_boost, input3_boost,
      left_adc_volume, right_adc_volume, adc_volume,
      alc_target, alc_max_gain, alc_min_gain, noise_gate_threshold,
      left_dac_volume, right_dac_volume, dac_volume,
      left_input3_output_volume, right_input3_output_volume, input3_output_volume,
      left_mic_output_volume, right_mic_output_volume, mic_output_volume,
      left_headphone_volume, right_headphone_volume, headphone_volume,
      left_speaker_volume, right_speaker_volume, speaker_volume }

\* the levels assigned to a control: its range, end points included, and a
\* few levels on either side of it
DbGrid(c) ==
    { c.in_min + (k * DbStride) : k \in 0 .. ((c.in_max - c.in_min) \div DbStride) }
        \cup { c.in_max }
        \cup { c.in_min - k : k \in 1 .. MaxBeyond }
        \cup { c.in_max + k : k \in 1 .. MaxBeyond }

\* the table controls
TableControls ==
    { left_mic_boost_gain, right_mic_boost_gain, mic_boost_gain,
      speaker_dc_gain, speaker_ac_gain }

\* the gains assigned to a table control: every tenth of a dB from below
\* the first entry to above the last one
TableGrid(c) == (c.table[1] - MaxBeyond) .. (c.table[Len(c.table)] + MaxBeyond)

\* the ALC time controls
TimeControls == { alc_hold_time, alc_decay_time, alc_attack_time }

\* the times assigned to a time control: 0 and the units around it, the
\* units around MIN * 2^k up to MAX, the units around MAX, and 2 * MAX
TimeGrid(c) ==
    ((-MaxBeyond) .. MaxBeyond)
        \cup { t \in { (c.t_min * (2 ^ k)) + j : k \in 0 .. 15, j \in (-MaxBeyond) .. MaxBeyond } :
                 t <= c.t_max }
        \cup ((c.t_max - MaxBeyond) .. (c.t_max + MaxBeyond))
        \cup { 2 * c.t_max }

\* the codes of a time control: 0 .. 10 for attack and decay, 0 .. 15 for hold
TimeCodes(c) == 0 .. (IF c.code_max >= 0 THEN c.code_max ELSE (2 ^ c.d.num_bits) - 1)

\* the dB properties of WM8960_Advanced that have a dB setter in WM8960
VariantPairs ==
    { [advanced |-> left_mic_volume, legacy |-> setLINVOLDB],
      [advanced |-> right_mic_volume, legacy |-> setRINVOLDB],
      [advanced |-> left_adc_volume, legacy |-> setAdcLeftDigitalVolumeDB],
      [advanced |-> right_adc_volume, legacy |-> setAdcRightDigitalVolumeDB],
      [advanced |-> adc_volume, legacy |-> setAdcDigitalVolumeDB],
      [advanced |-> left_dac_volume, legacy |-> setDacLeftDigitalVolumeDB],
      [advanced |-> right_dac_volume, legacy |-> setDacRightDigitalVolumeDB],
      [advanced |-> headphone_volume, legacy |-> setHeadphoneVolumeDB],
      [advanced |-> speaker_volume, legacy |-> setSpeakerVolumeDB] }

\* a freshly constructed driver and one assignment obj.<control> = value to make
InitDb ==
    /\ registers = Constructed.registers
    /\ frames = Constructed.frames
    /\ sample_rate = None
    /\ last = [op |-> "init", d |-> NoDescriptor, value |-> 0, fail |-> 0, err |-> "none"]
    /\ nops = 0
    /\ _input = 0
    /\ _gain = 0
    /\ _registerLocalCopy = WM8960_init.copy
    /\ pending \in
           UNION { { << [op |-> "linear", c |-> c, value |-> x] >> : x \in DbGrid(c) } :
                   c \in LinearControls }
           \cup UNION { { << [op |-> "table", c |-> c, value |-> x] >> : x \in TableGrid(c) } :
                        c \in TableControls }
           \cup UNION { { << [op |-> "time", c |-> c, value |-> x] >> : x \in TimeGrid(c) } :
                        c \in TimeControls }
           \cup { << [op |-> "supply", c |-> _vsel, value |-> x] >> :
                      x \in (27 - MaxBeyond) .. (33 + MaxBeyond) }
           \cup { << [op |-> "depth", c |-> _bit_depth, value |-> x] >> :
                      x \in (16 - (4 * MaxBeyond)) .. (32 + (4 * MaxBeyond)) }
           \cup { << [op |-> "mute", c |-> [which |-> w], value |-> x] >> :
                      w \in { "left_", "right_", "" }, x \in 0 .. 1 }
           \cup UNION { { << [op |-> "code", c |-> c, value |-> x] >> : x \in TimeCodes(c) } :
                        c \in TimeControls }
           \cup UNION { { << [op |-> "variants", c |-> c, value |-> x] >> :
                            x \in c.advanced.in_min .. c.advanced.in_max } :
                        c \in VariantPairs }

\* obj.<control> = value for a linear dB control
AssignLinear ==
    /\ pending # << >>
    /\ pending[1].op = "linear"
    /\ last.op = "init"
    /\ \E r \in { Run(registers, << >>, linear_setter(pending[1].c, pending[1].value), 0) } :
           /\ registers' = r.registers
           /\ frames' = r.frames
           /\ last' = [op |-> "linear", d |-> NoDescriptor, value |-> pending[1].value,
                       fail |-> 0, err |-> r.err]
    /\ nops' = nops + 1
    /\ UNCHANGED << sample_rate, pending, _input, _gain, _registerLocalCopy >>

\* obj.<control> = value for a table control
AssignTable ==
    /\ pending # << >>
    /\ pending[1].op = "table"
    /\ last.op = "init"
    /\ \E r \in { Run(registers, << >>, table_setter(pending[1].c, pending[1].value), 0) } :
           /\ registers' = r.registers
           /\ frames' = r.frames
           /\ last' = [op |-> "table", d |-> NoDescriptor, value |-> pending[1].value,
                       fail |-> 0, err |-> r.err]
    /\ nops' = nops + 1
    /\ UNCHANGED << sample_rate, pending, _input, _gain, _registerLocalCopy >>

\* obj.<control> = value for an ALC time control
AssignTime ==
    /\ pending # << >>
    /\ pending[1].op = "time"
    /\ last.op = "init"
    /\ \E h \in { time_setter(pending[1].c, pending[1].value) } :
       \E r \in { Run(registers, << >>, h.writes, 0) } :
           /\ registers' = r.registers
           /\ frames' = r.frames
           /\ last' = [op |-> "time", d |-> NoDescriptor, value |-> pending[1].value,
                       fail |-> 0, err |-> IF h.err # "none" THEN h.err ELSE r.err]
    /\ nops' = nops + 1
    /\ UNCHANGED << sample_rate, pending, _input, _gain, _registerLocalCopy >>

\* with the field holding a code: obj.<control> = obj.<control>
AssignTimeCode ==
    /\ pending # << >>
    /\ pending[1].op = "code"
    /\ last.op = "init"
    /\ \E held \in { Run(registers, << >>,
                          << Write(pending[1].c.d, pending[1].value) >>, 0) } :
       \E h \in { time_setter(pending[1].c, time_getter(held.registers, pending[1].c)) } :
       \E r \in { Run(held.registers, held.frames, h.writes, 0) } :
           /\ registers' = r.registers
           /\ frames' = r.frames
           /\ last' = [op |-> "code", d |-> NoDescriptor, value |-> pending[1].value,
                       fail |-> 0, err |-> IF h.err # "none" THEN h.err ELSE r.err]
    /\ nops' = nops + 1
    /\ UNCHANGED << sample_rate, pending, _input, _gain, _registerLocalCopy >>

\* the same level given to both variants: obj.<control> = value on the
\* WM8960_Advanced and the dB setter called with value on the WM8960
AssignVariants ==
    /\ pending # << >>
    /\ pending[1].op = "variants"
    /\ last.op = "init"
    /\ \E r \in { Run(registers, << >>,
                       linear_setter(pending[1].c.advanced, pending[1].value), 0) } :
       \E s \in { legacy_db_setter([copy |-> _registerLocalCopy, frames |-> << >>,
                                     err |-> "none"],
                                    pending[1].c.legacy, pending[1].value) } :
           /\ registers' = r.registers
           /\ frames' = r.frames
           /\ _registerLocalCopy' = s.copy
           /\ last' = [op |-> "variants", d |-> NoDescriptor, value |-> pending[1].value,
                       fail |-> 0, err |-> r.err, sent |-> s.frames]
    /\ nops' = nops + 1
    /\ UNCHANGED << sample_rate, pending, _input, _gain >>

\* obj.power_supply = value
AssignPowerSupply ==
    /\ pending # << >>
    /\ pending[1].op = "supply"
    /\ last.op = "init"
    /\ \E h \in { power_supply_setter(pending[1].value) } :
       \E r \in { Run(registers, << >>, h.writes, 0) } :
           /\ registers' = r.registers
           /\ frames' = r.frames
           /\ last' = [op |-> "supply", d |-> NoDescriptor, value |-> pending[1].value,
                       fail |-> 0, err |-> IF h.err # "none" THEN h.err ELSE r.err]
    /\ nops' = nops + 1
    /\ UNCHANGED << sample_rate, pending, _input, _gain, _registerLocalCopy >>

\* obj.left_mic_mute = value, obj.right_mic_mute = value or obj.mic_mute = value
AssignMicMute ==
    /\ pending # << >>
    /\ pending[1].op = "mute"
    /\ last.op = "init"
    /\ \E r \in { Run(registers, << >>, mic_mute_setters(pending[1].c.which, pending[1].value = 1), 0) } :
           /\ registers' = r.registers
           /\ frames' = r.frames
           /\ last' = [op |-> "mute", d |-> NoDescriptor, value |-> 0,
                       fail |-> 0, err |-> r.err]
    /\ nops' = nops + 1
    /\ UNCHANGED << sample_rate, pending, _input, _gain, _registerLocalCopy >>

\* obj.bit_depth = value
AssignBitDepth ==
    /\ pending # << >>
    /\ pending[1].op = "depth"
    /\ last.op = "init"
    /\ \E r \in { Run(registers, << >>, bit_depth_setter(pending[1].value), 0) } :
           /\ registers' = r.registers
           /\ frames' = r.frames
           /\ last' = [op |-> "depth", d |-> NoDescriptor, value |-> pending[1].value,
                       fail |-> 0, err |-> r.err]
    /\ nops' = nops + 1
    /\ UNCHANGED << sample_rate, pending, _input, _gain, _registerLocalCopy >>

NextDb ==
    AssignLinear \/ AssignTable \/ AssignTime \/ AssignPowerSupply \/ AssignMicMute
        \/ AssignBitDepth \/ AssignTimeCode \/ AssignVariants

\* one level assignment to a freshly constructed driver
SpecDb == InitDb /\ [][NextDb]_vars

(***************************************************************************)
(* The WM8960 wrapper (adafruit_wm8960/__init__.py): an Input selection, a *)
(* gain and five levels, each a float from 0.0 to 1.0, over the controls   *)
(* of WM8960_Advanced.  A wrapper float is num / den with den the width of *)
(* the range it is mapped onto, so that the mapped level is a whole number *)
(* of eighths of a dB.                                                     *)
(***************************************************************************)
DISABLED == 0
MIC1 == 1
MIC2 == 3
MIC3 == 5
LINE2 == 2
LINE3 == 4

VMID == 0
INPUT2 == 1
INPUT3 == 2

_REG_3D_CONTROL == 16
_REG_PWR_MGMT_3 == 47
_REG_CLASS_D_CONTROL_1 == 49

\* a stereo switch of WM8960_Advanced is the bits it assigns, in order
\* (self.left_x = self.right_x = value), and reads as the `and` of them
switch_setter(bits, value) == [i \in 1 .. Len(bits) |-> Write(bits[i], value)]
switch_getter(regs, bits) == \A i \in 1 .. Len(bits) : WOBit_get(regs, bits[i])

adc == << WOBit(_REG_PWR_MGMT_1, 3), WOBit(_REG_PWR_MGMT_1, 2) >>
input == << WOBit(_REG_PWR_MGMT_1, 5), WOBit(_REG_PWR_MGMT_1, 4) >>
mic == << WOBit(_REG_PWR_MGMT_3, 5), WOBit(_REG_PWR_MGMT_3, 4) >>
mic_inverting_input == << WOBit(_REG_ADCL_SIGNAL_PATH, 8), WOBit(_REG_ADCR_SIGNAL_PATH, 8) >>
mic_boost == << WOBit(_REG_ADCL_SIGNAL_PATH, 3), WOBit(_REG_ADCR_SIGNAL_PATH, 3) >>
mic_zero_cross == << WOBit(_REG_LEFT_INPUT_VOLUME, 6), WOBit(_REG_RIGHT_INPUT_VOLUME, 6) >>
mic_mute == << _left_mic_mute, _right_mic_mute >>
dac == << WOBit(_REG_PWR_MGMT_2, 8), WOBit(_REG_PWR_MGMT_2, 7) >>
dac_output == << WOBit(_REG_LEFT_OUT_MIX, 8), WOBit(_REG_RIGHT_OUT_MIX, 8) >>
output == << WOBit(_REG_PWR_MGMT_3, 3), WOBit(_REG_PWR_MGMT_3, 2) >>
mono_output == << WOBit(_REG_PWR_MGMT_2, 1) >>
mic_output == << WOBit(_REG_BYPASS_1, 7), WOBit(_REG_BYPASS_2, 7) >>
headphone == << WOBit(_REG_PWR_MGMT_2, 6), WOBit(_REG_PWR_MGMT_2, 5) >>
headphone_zero_cross == << WOBit(_REG_LOUT1_VOLUME, 7), WOBit(_REG_LOUT1_VOLUME, 7) >>
speaker ==
    << WOBit(_REG_PWR_MGMT_2, 4), WOBit(_REG_CLASS_D_CONTROL_1, 6),
       WOBit(_REG_PWR_MGMT_2, 3), WOBit(_REG_CLASS_D_CONTROL_1, 7) >>
speaker_zero_cross == << WOBit(_REG_LOUT2_VOLUME, 7), WOBit(_REG_LOUT2_VOLUME, 7) >>
enhance == << WOBit(_REG_3D_CONTROL, 0) >>

\* mic_input: input 2 and input 3 of the left channel, then of the right one
mic_input_setter(value) ==
    << Write(WOBit(_REG_ADCL_SIGNAL_PATH, 6), value = INPUT2),
       Write(WOBit(_REG_ADCL_SIGNAL_PATH, 7), value = INPUT3),
       Write(WOBit(_REG_ADCR_SIGNAL_PATH, 6), value = INPUT2),
       Write(WOBit(_REG_ADCR_SIGNAL_PATH, 7), value = INPUT3) >>

\* the getter reads the left channel only
mic_input(regs) ==
    IF WOBit_get(regs, WOBit(_REG_ADCL_SIGNAL_PATH, 6)) THEN INPUT2
    ELSE IF WOBit_get(regs, WOBit(_REG_ADCL_SIGNAL_PATH, 7)) THEN INPUT3
    ELSE VMID

_enhance_depth == WOBits(4, _REG_3D_CONTROL, 1)

\* enhance_depth = num / den
enhance_depth_setter(num, den) ==
    LET m == map_range(num, 0, den, 0, 15)
    IN  << Write(_enhance_depth, round(m.num, m.den)) >>

enhance_depth(regs) == Level(Rat(WOBits_get(regs, _enhance_depth), 15))

\* map_range(num / den, 0.0, 1.0, out_min, out_max) of the wrapper, a whole
\* number of eighths of a dB because den divides out_max - out_min
unit_range(num, den, out_min, out_max) ==
    LET m == map_range(num, 0, den, out_min, out_max)
    IN  m.num \div m.den

\* map_range(level, in_min, in_max, 0.0, 1.0) of a wrapper getter, for the
\* rational level num / den and in_min < in_max: in_delta / in_range held
\* inside 0.0 .. 1.0; a level of None is the TypeError of map_range(None, ...)
to_unit(level, in_min, in_max) ==
    IF level.err # "none" THEN level
    ELSE IF level.none THEN Raises("TypeError")
    ELSE LET in_range == (in_max - in_min) * level.den
             in_delta == level.num - (in_min * level.den)
         IN  IF in_delta < 0 THEN Level(Rat(0, 1))
             ELSE IF in_delta > in_range THEN Level(Rat(1, 1))
             ELSE Level(Rat(in_delta, in_range))

\* a gain is a whole number of GainDen-ths: one step is 1 dB of input boost
\* and 2.625 dB of microphone gain
GainDen == (BOOST_GAIN_MAX - BOOST_GAIN_MIN) \div 8

\* WM8960.gain = num / GainDen with self._input = selected
WM8960_gain_setter(selected, num) ==
    LET is_mic == (selected % 2) = 1
    IN  linear_setter(mic_volume,
                      IF is_mic THEN unit_range(num, GainDen, MIC_GAIN_MIN, MIC_GAIN_MAX)
                      ELSE MIC_GAIN_MIN)
        \o linear_setter(input2_boost,
                         IF ~is_mic /\ BitOf(selected, 1) = 1
                         THEN unit_range(num, GainDen, BOOST_GAIN_MIN, BOOST_GAIN_MAX)
                         ELSE BOOST_GAIN_MIN - 8)
        \o linear_setter(input3_boost,
                         IF ~is_mic /\ BitOf(selected, 2) = 1
                         THEN unit_range(num, GainDen, BOOST_GAIN_MIN, BOOST_GAIN_MAX)
                         ELSE BOOST_GAIN_MIN - 8)

\* an input setter that leaves the gain stages as they are
WM8960_input_setter_NoGain(value, gain) ==
    LET is_mic == (value % 2) = 1
    IN  switch_setter(mic, is_mic)
        \o switch_setter(mic_inverting_input, is_mic)
        \o mic_input_setter(IF is_mic THEN BitAnd(value, 6, 3) \div 2 ELSE VMID)
        \o mic_mute_setter(~is_mic)
        \o switch_setter(mic_boost, is_mic)

\* WM8960.input = value, whose last statement is self.gain = self._gain
WM8960_input_setter(value, gain) ==
    LET is_mic == (value % 2) = 1
    IN  switch_setter(mic, is_mic)
        \o switch_setter(mic_inverting_input, is_mic)
        \o mic_input_setter(IF is_mic THEN BitAnd(value, 6, 3) \div 2 ELSE VMID)
        \o mic_mute_setter(~is_mic)
        \o switch_setter(mic_boost, is_mic)
        \o WM8960_gain_setter(value, gain)

\* a level setter that switches its stage on and never off
stage_writes_NoOff(regs, stage, on, num) ==
    IF switch_getter(regs, stage) # on THEN switch_setter(stage, on) ELSE << >>

\* a level setter of the wrapper: the stage is switched off for a value
\* <= 0.0, switched on if it is off, and the level is assigned
stage_writes(regs, stage, on, num) ==
    IF num <= 0 THEN switch_setter(stage, ~on)
    ELSE IF switch_getter(regs, stage) # on THEN switch_setter(stage, on)
    ELSE << >>

WM8960_volume_setter(regs, num, den) ==
    stage_writes(regs, << dac_mute >>, FALSE, num)
    \o linear_setter(dac_volume, unit_range(num, den, DAC_VOLUME_MIN, DAC_VOLUME_MAX))

WM8960_volume(regs) ==
    IF WOBit_get(regs, dac_mute) THEN Level(Rat(0, 1))
    ELSE to_unit(linear_getter(regs, dac_volume), DAC_VOLUME_MIN, DAC_VOLUME_MAX)

WM8960_headphone_setter(regs, num, den) ==
    stage_writes(regs, headphone, TRUE, num)
    \o linear_setter(headphone_volume,
                     IF num > 0 THEN unit_range(num, den, AMP_VOLUME_MIN, AMP_VOLUME_MAX)
                     ELSE AMP_VOLUME_MIN - 8)

WM8960_headphone(regs) ==
    IF ~switch_getter(regs, headphone) THEN Level(Rat(0, 1))
    ELSE LET value == linear_getter(regs, headphone_volume)
         IN  IF value.err = "none" /\ value.none THEN Level(Rat(0, 1))
             ELSE to_unit(value, AMP_VOLUME_MIN, AMP_VOLUME_MAX)

WM8960_speaker_setter(regs, num, den) ==
    stage_writes(regs, speaker, TRUE, num)
    \o linear_setter(speaker_volume, unit_range(num, den, AMP_VOLUME_MIN, AMP_VOLUME_MAX))

WM8960_speaker(regs) ==
    IF ~switch_getter(regs, speaker) THEN Level(Rat(0, 1))
    ELSE to_unit(linear_getter(regs, speaker_volume), AMP_VOLUME_MIN, AMP_VOLUME_MAX)

WM8960_enhance_setter(regs, num, den) ==
    stage_writes(regs, enhance, TRUE, num) \o enhance_depth_setter(num, den)

WM8960_enhance(regs) ==
    IF ~switch_getter(regs, enhance) THEN Level(Rat(0, 1)) ELSE enhance_depth(regs)

WM8960_monitor_setter(regs, num, den) ==
    stage_writes(regs, mic_output, TRUE, num)
    \o linear_setter(mic_output_volume,
                     unit_range(num, den, OUTPUT_VOLUME_MIN, OUTPUT_VOLUME_MAX))

WM8960_monitor(regs) ==
    IF ~switch_getter(regs, mic_output) THEN Level(Rat(0, 1))
    ELSE to_unit(linear_getter(regs, mic_output_volume), OUTPUT_VOLUME_MIN, OUTPUT_VOLUME_MAX)

\* WM8960.__init__ with its default sample_rate and bit_depth, after the
\* WM8960_Advanced it constructs
WM8960_Constructed ==
    Run(Constructed.registers, << >>,
        sample_rate_writes(44100)
        \o bit_depth_setter(16)
        \o switch_setter(adc, TRUE)
        \o switch_setter(input, TRUE)
        \o table_setter(mic_boost_gain, 0)
        \o switch_setter(mic_zero_cross, TRUE)
        \o switch_setter(dac, TRUE)
        \o switch_setter(dac_output, TRUE)
        \o switch_setter(output, TRUE)
        \o switch_setter(mono_output, TRUE)
        \o switch_setter(headphone_zero_cross, TRUE)
        \o switch_setter(speaker_zero_cross, TRUE),
        0)

InitWrap ==
    /\ registers = WM8960_Constructed.registers
    /\ frames = WM8960_Constructed.frames
    /\ sample_rate = << 44100 >>
    /\ last = [op |-> "init", d |-> NoDescriptor, value |-> 0, fail |-> 0, err |-> "none"]
    /\ nops = 0
    /\ pending = << >>
    /\ _input = DISABLED
    /\ _gain = 0
    /\ _registerLocalCopy = WM8960_init.copy

\* the Input values
Inputs == { DISABLED, MIC1, MIC2, MIC3, LINE2, LINE3 }

\* the numerators assigned to a wrapper float of denominator den: below 0.0,
\* 0.0, the smallest steps above it, the middle, 1.0 and above 1.0
UnitGrid(den) ==
    ((-MaxBeyond) .. MaxBeyond) \cup { den \div 2 } \cup ((den - 1) .. (den + MaxBeyond))

\* a wrapper assignment: the writes ws of its handler, then the new fields
Wrap(op, num, ws, new_input, new_gain) ==
    /\ nops < MaxOps
    /\ \E r \in { Run(registers, << >>, ws, 0) } :
           /\ registers' = r.registers
           /\ frames' = r.frames
           /\ last' = [op |-> op, d |-> NoDescriptor, value |-> num, fail |-> 0,
                       err |-> r.err]
    /\ nops' = nops + 1
    /\ _input' = new_input
    /\ _gain' = new_gain
    /\ UNCHANGED << sample_rate, pending, _registerLocalCopy >>

\* codec.input = value
SetInput ==
    \E value \in Inputs :
        Wrap("input", value, WM8960_input_setter(value, _gain), value,
             constrain(_gain, 0, GainDen))

\* codec.gain = num / GainDen
SetGain ==
    \E num \in UnitGrid(GainDen) :
        Wrap("gain", num, WM8960_gain_setter(_input, num), _input,
             constrain(num, 0, GainDen))

\* codec.volume = num / den
SetVolume ==
    \E num \in UnitGrid(DAC_VOLUME_MAX - DAC_VOLUME_MIN) :
        Wrap("volume", num,
             WM8960_volume_setter(registers, num, DAC_VOLUME_MAX - DAC_VOLUME_MIN),
             _input, _gain)

\* codec.headphone = num / den
SetHeadphone ==
    \E num \in UnitGrid(AMP_VOLUME_MAX - AMP_VOLUME_MIN) :
        Wrap("headphone", num,
             WM8960_headphone_setter(registers, num, AMP_VOLUME_MAX - AMP_VOLUME_MIN),
             _input, _gain)

\* codec.speaker = num / den
SetSpeaker ==
    \E num \in UnitGrid(AMP_VOLUME_MAX - AMP_VOLUME_MIN) :
        Wrap("speaker", num,
             WM8960_speaker_setter(registers, num, AMP_VOLUME_MAX - AMP_VOLUME_MIN),
             _input, _gain)

\* codec.enhance = num / 15
SetEnhance ==
    \E num \in UnitGrid(15) :
        Wrap("enhance", num, WM8960_enhance_setter(registers, num, 15), _input, _gain)

\* codec.monitor = num / den
SetMonitor ==
    \E num \in UnitGrid(OUTPUT_VOLUME_MAX - OUTPUT_VOLUME_MIN) :
        Wrap("monitor", num,
             WM8960_monitor_setter(registers, num, OUTPUT_VOLUME_MAX - OUTPUT_VOLUME_MIN),
             _input, _gain)

NextWrap ==
    SetInput \/ SetGain \/ SetVolume \/ SetHeadphone \/ SetSpeaker \/ SetEnhance
        \/ SetMonitor

\* a WM8960 wrapper and the assignments made to its input, gain and level
\* controls; its other setters (loopback, alc, alc_gain, alc_time) assign only
\* registers 7, 9 and 17 to 20, which none of these controls reads or writes
SpecWrap == InitWrap /\ [][NextWrap]_vars

(***************************************************************************)
(* A driver to which public controls are assigned one after another: the   *)
(* per-channel zero-cross bits, the clock dividers, the volumes of the     *)
(* five amplifier stages and the microphone input selection.               *)
(***************************************************************************)
left_headphone_zero_cross == WOBit(_REG_LOUT1_VOLUME, 7)
right_headphone_zero_cross == WOBit(_REG_LOUT1_VOLUME, 7)
left_speaker_zero_cross == WOBit(_REG_LOUT2_VOLUME, 7)
right_speaker_zero_cross == WOBit(_REG_LOUT2_VOLUME, 7)

_gpio_clock_divider == WOBits(3, _REG_CLOCKING_2, 6)

\* the gpio_clock_divider getter: _OPCLKDIV[min(field, len(_ADCDACDIV))]
gpio_clock_divider(regs) ==
    clock_divider_getter(regs, _gpio_clock_divider, _OPCLKDIV, Len(_ADCDACDIV))

\* the per-channel zero-cross bits, assigned directly
ZeroCrossControls ==
    [ left_headphone_zero_cross |-> left_headphone_zero_cross,
      right_headphone_zero_cross |-> right_headphone_zero_cross,
      left_speaker_zero_cross |-> left_speaker_zero_cross,
      right_speaker_zero_cross |-> right_speaker_zero_cross ]

\* the clock dividers: the field and the table of each
DividerControls ==
    [ adc_clock_divider |-> [d |-> _adc_clock_divider, table |-> _ADCDACDIV,
                             bound |-> Len(_ADCDACDIV)],
      dac_clock_divider |-> [d |-> _dac_clock_divider, table |-> _ADCDACDIV,
                             bound |-> Len(_ADCDACDIV)],
      base_clock_divider |-> [d |-> _base_clock_divider, table |-> _BCLKDIV,
                              bound |-> Len(_BCLKDIV)],
      amp_clock_divider |-> [d |-> _amp_clock_divider, table |-> _DCLKDIV,
                             bound |-> Len(_DCLKDIV)],
      gpio_clock_divider |-> [d |-> _gpio_clock_divider, table |-> _OPCLKDIV,
                              bound |-> Len(_ADCDACDIV)] ]

\* the non-composite controls assigned here, by name
PublicControls == (DOMAIN ZeroCrossControls) \cup (DOMAIN DividerControls)

\* obj.<name> = value: a boolean for a zero-cross bit, a divisor in halves
\* for a clock divider
control_setter(name, value) ==
    IF name \in DOMAIN ZeroCrossControls
    THEN << Write(ZeroCrossControls[name], value) >>
    ELSE clock_divider_setter(DividerControls[name].d, DividerControls[name].table,
                              value, 2)

\* obj.<name>
control_getter(regs, name) ==
    IF name \in DOMAIN ZeroCrossControls
    THEN [err |-> "none", value |-> WOBit_get(regs, ZeroCrossControls[name])]
    ELSE clock_divider_getter(regs, DividerControls[name].d, DividerControls[name].table,
                              DividerControls[name].bound)

\* the values assigned to a control: both booleans, every entry of its table
ControlValues(name) ==
    IF name \in DOMAIN ZeroCrossControls THEN BOOLEAN
    ELSE { DividerControls[name].table[i] : i \in 1 .. Len(DividerControls[name].table) }

AssignControl ==
    \E name \in PublicControls :
        \E value \in ControlValues(name) :
            /\ nops < MaxOps
            /\ \E r \in { Run(registers, << >>, control_setter(name, value), 0) } :
                   /\ registers' = r.registers
                   /\ frames' = r.frames
                   /\ last' = [op |-> "control", d |-> NoDescriptor, value |-> value,
                               fail |-> 0, err |-> r.err, c |-> name]
            /\ nops' = nops + 1
            /\ UNCHANGED << sample_rate, pending, _input, _gain, _registerLocalCopy >>

\* the volume controls of the five stages, per channel and stereo
VolumeControls ==
    { left_mic_volume, right_mic_volume, mic_volume,
      left_adc_volume, right_adc_volume, adc_volume,
      left_dac_volume, right_dac_volume, dac_volume,
      left_headphone_volume, right_headphone_volume, headphone_volume,
      left_speaker_volume, right_speaker_volume, speaker_volume }

\* the levels assigned: 1 dB below the range, its lowest and its highest level
VolumeGrid(c) == { c.in_min - 8, c.in_min, c.in_max }

AssignVolume ==
    \E c \in VolumeControls :
        \E value \in VolumeGrid(c) :
            /\ nops < MaxOps
            /\ \E r \in { Run(registers, << >>, linear_setter(c, value), 0) } :
                   /\ registers' = r.registers
                   /\ frames' = r.frames
                   /\ last' = [op |-> "volume", d |-> NoDescriptor, value |-> value,
                               fail |-> 0, err |-> r.err, c |-> c]
            /\ nops' = nops + 1
            /\ UNCHANGED << sample_rate, pending, _input, _gain, _registerLocalCopy >>

_left_mic_input2 == WOBit(_REG_ADCL_SIGNAL_PATH, 6)
_left_mic_input3 == WOBit(_REG_ADCL_SIGNAL_PATH, 7)
_right_mic_input2 == WOBit(_REG_ADCR_SIGNAL_PATH, 6)
_right_mic_input3 == WOBit(_REG_ADCR_SIGNAL_PATH, 7)

left_mic_input_setter(value) ==
    << Write(_left_mic_input2, value = INPUT2), Write(_left_mic_input3, value = INPUT3) >>

right_mic_input_setter(value) ==
    << Write(_right_mic_input2, value = INPUT2), Write(_right_mic_input3, value = INPUT3) >>

\* obj.left_mic_input = value, obj.right_mic_input = value, obj.mic_input = value
AssignMicInput ==
    \E which \in { "left_", "right_", "" } :
        \E value \in { VMID, INPUT2, INPUT3 } :
            /\ nops < MaxOps
            /\ \E r \in { Run(registers, << >>,
                              IF which = "left_" THEN left_mic_input_setter(value)
                              ELSE IF which = "right_" THEN right_mic_input_setter(value)
                              ELSE mic_input_setter(value), 0) } :
                   /\ registers' = r.registers
                   /\ frames' = r.frames
                   /\ last' = [op |-> "mic_input", d |-> NoDescriptor, value |-> value,
                               fail |-> 0, err |-> r.err, c |-> which]
            /\ nops' = nops + 1
            /\ UNCHANGED << sample_rate, pending, _input, _gain, _registerLocalCopy >>

\* the pll_k getter: _pll_k1 << 18 + _pll_k2 << 9 + _pll_k3, where + binds
\* tighter than <<, so that the result is _pll_k1 shifted left by
\* (18 + _pll_k2) and then by (9 + _pll_k3) bits; kept as base and shift
pll_k(regs) ==
    [ base  |-> WOBits_get(regs, _pll_k1),
      shift |-> (18 + WOBits_get(regs, _pll_k2)) + (9 + WOBits_get(regs, _pll_k3)) ]

\* the 24-bit values assigned to pll_k
PllKGrid ==
    { 0, 1, (2 ^ 9) - 1, 2 ^ 9, 2 ^ 18, PLL_K_48k, PLL_K_44k, (2 ^ 24) - 1 }

\* obj.pll_k = value
AssignPllK ==
    \E value \in PllKGrid :
        /\ nops < MaxOps
        /\ \E r \in { Run(registers, << >>, pll_k_setter(value), 0) } :
               /\ registers' = r.registers
               /\ frames' = r.frames
               /\ last' = [op |-> "pll_k", d |-> NoDescriptor, value |-> value,
                           fail |-> 0, err |-> r.err]
        /\ nops' = nops + 1
        /\ UNCHANGED << sample_rate, pending, _input, _gain, _registerLocalCopy >>

NextCtl == AssignControl \/ AssignVolume \/ AssignMicInput \/ AssignPllK \/ Reset

SpecCtl == Init /\ [][NextCtl]_vars

(***************************************************************************)
(* Properties.                                                             *)
(***************************************************************************)
\* the cell as one big-endian 16-bit word
Word(cell) == (cell[1] * 256) + cell[2]

\* the bit positions a descriptor owns in its cell
OwnBits(d) ==
    IF d.kind = "bit" THEN { d.bit }
    ELSE d.lowest_bit .. (d.lowest_bit + d.num_bits - 1)

\* the value a descriptor reads
Readback(regs, d) == IF d.kind = "bit" THEN WOBit_get(regs, d) ELSE WOBits_get(regs, d)

\* the argument fits the descriptor
InField(d, value) ==
    IF d.kind = "bit" THEN value \in BOOLEAN ELSE value \in 0 .. ((2 ^ d.num_bits) - 1)

IsAssign(l) == l.op \in { "bit", "bits" }

SupportedRates == { 8000, 11025, 12000, 16000, 22050, 24000, 32000, 44100, 48000 }

\* C1 -- bitfield isolation: assigning a single-bit control, or a bit-range
\* control a value that fits its width, changes only the control's own bits
\* of its cell; every other bit of the cell and every other cell keep their
\* values, and the control reads back the value assigned.
C1_BitfieldIsolation ==
    [][ (IsAssign(last') /\ InField(last'.d, last'.value)) =>
            LET d == last'.d
                r == d.register_address
            IN  /\ \A i \in RegIndex \ { r } : registers'[i] = registers[i]
                /\ \A k \in (0 .. 15) \ OwnBits(d) :
                       BitOf(Word(registers'[r]), k) = BitOf(Word(registers[r]), k)
                /\ Readback(registers', d) = last'.value ]_vars

\* a 2-bit field set to all ones next to a neighbouring bit that is set
C1_Witness ==
    /\ last.op = "bits"
    /\ last.d = vmid
    /\ last.value = 3
    /\ WOBit_get(registers, power)
    /\ WOBits_get(registers, vmid) = 3

\* C2 -- address embedding: after construction and right after every
\* reset(), the top 7 bits of byte 0 of cell i equal i, for all 56 cells.
C2_AddressEmbedding ==
    last.op \in { "init", "reset" } =>
        \A i \in RegIndex : registers[i][1] \div 2 = i

C2_Witness ==
    /\ last.op = "reset"
    /\ nops >= 1
    /\ registers[_REG_PLL_K_3][1] \div 2 = _REG_PLL_K_3

\* C3 -- reset restores the register file: right after reset(), whatever
\* was assigned before, every cell equals its default with the address
\* (i << 1) in byte 0.
C3_ResetRestoresRegisters ==
    last.op = "reset" =>
        \A i \in RegIndex : Word(registers[i]) = _REG_DEFAULTS[i + 1] + (i * 512)

C3_Witness ==
    /\ last.op = "reset"
    /\ nops >= 2
    /\ Word(registers[_REG_RESET]) = _REG_RESET * 512

\* C4 -- reset restores the control surface: right after reset(), every
\* getter reports the documented default of its control (power True, vmid
\* PLAYBACK, sample_rate None, bit_depth 32, dac_mute True, pll_n 8).
C4_ResetRestoresControls ==
    last.op = "reset" =>
        /\ WOBit_get(registers, power) = TRUE
        /\ WOBits_get(registers, vmid) = PLAYBACK
        /\ sample_rate = None
        /\ bit_depth(registers) = 32
        /\ WOBit_get(registers, dac_mute) = TRUE
        /\ WOBits_get(registers, pll_n) = 8

\* the K the three PLL K fields hold
KWritten(regs) ==
    (WOBits_get(regs, _pll_k1) * (2 ^ 18)) + (WOBits_get(regs, _pll_k2) * (2 ^ 9))
        + WOBits_get(regs, _pll_k3)

\* C5 -- sample-rate dispatch: after sample_rate = r for a supported r the
\* PLL is on, fractional mode, PLL as SYSCLK, the prescaler and SYSCLK / 2
\* are set, base_clock_divider is 4.0 and amp_clock_divider 16.0; the 48 kHz
\* family gets N = 8, K = 0x3126E8 and dividers 48000 / r, the 44.1 kHz
\* family N = 7, K = 0x86C226 and dividers 44100 / r.
C5_SampleRateDispatch ==
    (last.op = "sample_rate" /\ last.value \in SupportedRates) =>
        LET r    == last.value
            base == IF r \in { 8000, 12000, 16000, 24000, 32000, 48000 } THEN 48000 ELSE 44100
            adcd == adc_clock_divider(registers)
            dacd == dac_clock_divider(registers)
        IN  /\ last.err = "none"
            /\ WOBit_get(registers, pll)
            /\ WOBit_get(registers, clock_fractional_mode)
            /\ WOBit_get(registers, clock_from_pll)
            /\ WOBit_get(registers, pll_prescale_div2)
            /\ system_clock_div2(registers)
            /\ base_clock_divider(registers) = [err |-> "none", value |-> 8]
            /\ amp_clock_divider(registers) = [err |-> "none", value |-> 32]
            /\ WOBits_get(registers, pll_n) = (IF base = 48000 THEN 8 ELSE 7)
            /\ KWritten(registers) = (IF base = 48000 THEN 3221224 ELSE 8831526)
            /\ adcd.err = "none" /\ adcd.value * r = 2 * base
            /\ dacd.err = "none" /\ dacd.value * r = 2 * base

C5_Witness ==
    /\ last.op = "sample_rate"
    /\ last.value = 22050
    /\ last.err = "none"
    /\ WOBits_get(registers, pll_n) = 7
    /\ adc_clock_divider(registers).value = 4

\* the PLL and clock divider state
ClockState(regs) ==
    << WOBit_get(regs, pll), regs[_REG_PLL_N], regs[_REG_PLL_K_1], regs[_REG_PLL_K_2],
       regs[_REG_PLL_K_3], regs[_REG_CLOCKING_1], regs[_REG_CLOCKING_2] >>

\* C6 -- a rejected sample rate leaves the clocks alone: sample_rate = r
\* for an unsupported r raises an error and the PLL enable, PLL N, PLL K1..K3,
\* CLOCKING_1 and CLOCKING_2 hold the values they had before the call.
C6_RejectedRateLeavesClocks ==
    [][ (last'.op = "sample_rate" /\ last'.value \notin SupportedRates) =>
            /\ last'.err = "ValueError"
            /\ ClockState(registers') = ClockState(registers) ]_vars

\* C7 -- cached sample rate: sample_rate is None after construction, an
\* accepted assignment makes it the rate assigned, and every other
\* operation, a rejected assignment included, leaves it as it was.
C7_CachedSampleRate ==
    /\ sample_rate = None
    /\ [][ IF last'.op = "sample_rate" /\ last'.value \in SupportedRates
           THEN sample_rate' = << last'.value >>
           ELSE sample_rate' = sample_rate ]_vars

\* a rate is cached and a later assignment was rejected
C7_Witness ==
    /\ sample_rate = << 48000 >>
    /\ last.op = "sample_rate"
    /\ last.value = 12345
    /\ last.err = "ValueError"

\* C8 -- write-through frame format: every assignment to a single-bit or
\* bit-range descriptor transmits exactly one frame, equal to the updated
\* cell, with byte 0 = (register index << 1) | bit 8 of the register value
\* and byte 1 = the low 8 bits.
C8_WriteThroughFrame ==
    IsAssign(last) =>
        LET r == last.d.register_address
            w == Word(registers[r])
        IN  /\ Len(frames) = 1
            /\ frames[1] = registers[r]
            /\ frames[1][1] = (r * 2) + BitOf(w, 8)
            /\ frames[1][2] = w % 256

\* C9 -- optimistic shadow: when the transport write of a control
\* assignment raises, the error reaches the caller, no frame went out, and
\* the shadow field already holds the value assigned (the bits of the value
\* that fit the field).
C9_OptimisticShadow ==
    (IsAssign(last) /\ last.fail = 1) =>
        /\ last.err = "OSError"
        /\ frames = << >>
        /\ Readback(registers, last.d) =
               (IF last.d.kind = "bit" THEN last.value
                ELSE last.value % (2 ^ last.d.num_bits))

\* a failed assignment that changed the field it was after
C9_Witness ==
    /\ last.op = "bits"
    /\ last.fail = 1
    /\ last.err = "OSError"
    /\ last.d = vmid
    /\ last.value = 2
    /\ WOBits_get(registers, vmid) = 2

Abs(x) == IF x < 0 THEN -x ELSE x

\* C10 -- linear dB round trip: for every linear control and every x in
\* [dB_min, dB_max], the getter after assigning x returns a level within one
\* quantization step (dB_max - dB_min) / (code_max - code_min) of x.
C10_LinearRoundTrip ==
    last.op = "linear" =>
        LET c == pending[1].c
            x == pending[1].value
            g == linear_getter(registers, c)
        IN  (c.in_min <= x /\ x <= c.in_max) =>
                /\ g.err = "none"
                /\ ~g.none
                /\ Abs(g.num - (x * g.den)) * Abs(c.out_max - c.out_min)
                       <= (c.in_max - c.in_min) * g.den

\* a level strictly inside the range that the code grid does not hold
C10_Witness ==
    /\ last.op = "linear"
    /\ pending[1].c = alc_target
    /\ ALC_TARGET_MIN < pending[1].value
    /\ pending[1].value < ALC_TARGET_MAX
    /\ LET g == linear_getter(registers, alc_target)
       IN  ~g.none /\ g.num # pending[1].value * g.den

\* C11 -- mute sentinel: assigning a mute-capable control (input2_boost,
\* input3_boost, adc_volume, headphone_volume, speaker_volume, per channel
\* and stereo) a level below its minimum stores code 0 in its field(s), and
\* the getter then returns None.
C11_MuteSentinel ==
    last.op = "linear" =>
        LET c == pending[1].c
            x == pending[1].value
        IN  (c.mute /\ x < c.in_min) =>
                /\ \A i \in 1 .. Len(c.channels) : WOBits_get(registers, c.channels[i].d) = 0
                /\ linear_getter(registers, c) = NoneLevel

\* the index of the largest entry of a table that is <= v, 0 if there is none
FloorIndex(table, v) ==
    IF \E i \in 1 .. Len(table) : table[i] <= v
    THEN (CHOOSE i \in 1 .. Len(table) :
              /\ table[i] <= v
              /\ \A j \in 1 .. Len(table) : table[j] <= v => table[j] <= table[i]) - 1
    ELSE 0

\* C12 -- table lookup floor semantics: assigning v to a mic boost gain or
\* a speaker DC/AC boost control never fails, stores the index of the largest
\* tabulated value <= v (index 0 when v is below every entry) in its
\* field(s), and the getter then returns that tabulated value.
C12_TableFloor ==
    last.op = "table" =>
        LET c == pending[1].c
            k == FloorIndex(c.table, pending[1].value)
        IN  /\ last.err = "none"
            /\ \A i \in 1 .. Len(c.fields) : WOBits_get(registers, c.fields[i]) = k
            /\ table_getter(registers, c) = [err |-> "none", value |-> c.table[k + 1]]

\* 15.0 dB, between the tabulated 13.0 and 20.0, stored as the code of 13.0
C12_Witness ==
    /\ last.op = "table"
    /\ pending[1].c = mic_boost_gain
    /\ pending[1].value = 150
    /\ WOBits_get(registers, mic_boost_gain.fields[1]) = 1
    /\ table_getter(registers, mic_boost_gain).value = 130

\* C13 -- log time mapping boundaries: alc_hold_time = 0.0 stores code 0 and
\* reads back exactly 0.0, and alc_attack_time = t for any t above 6.140
\* stores the maximum code 10.
C13_TimeBoundaries ==
    last.op = "time" =>
        LET c == pending[1].c
            t == pending[1].value
        IN  /\ (c = alc_hold_time /\ t = 0) =>
                   /\ last.err = "none"
                   /\ WOBits_get(registers, c.d) = 0
                   /\ time_getter(registers, c) = 0
            /\ (c = alc_attack_time /\ t > ALC_ATTACK_TIME_MAX) =>
                   /\ last.err = "none"
                   /\ WOBits_get(registers, c.d) = 10

\* an attack time of twice the maximum, stored as code 10
C13_Witness ==
    /\ last.op = "time"
    /\ pending[1].c = alc_attack_time
    /\ pending[1].value = 2 * ALC_ATTACK_TIME_MAX
    /\ WOBits_get(registers, alc_attack_time.d) = 10

\* C14 -- out-of-range raw codes are dropped, not spread: assigning a raw
\* bit-range control a non-negative value wider than its field stores the
\* value modulo 2^width in the field and changes no bit outside the field.
C14_OutOfRangeDropped ==
    [][ (last'.op = "bits" /\ last'.value >= 2 ^ last'.d.num_bits) =>
            LET d == last'.d
                r == d.register_address
            IN  /\ \A i \in RegIndex \ { r } : registers'[i] = registers[i]
                /\ \A k \in (0 .. 15) \ OwnBits(d) :
                       BitOf(Word(registers'[r]), k) = BitOf(Word(registers[r]), k)
                /\ Readback(registers', d) = last'.value % (2 ^ d.num_bits) ]_vars

\* C15 -- only the sample rate is ever rejected: no setter of a named
\* control other than sample_rate fails, whatever number it is given, each
\* control's documented minimum and maximum included.
C15_OnlySampleRateRejected ==
    last.op \in { "linear", "table", "time", "supply" } => last.err = "none"

\* C16 -- construction postcondition: constructing the driver transmits
\* exactly three frames, in this order: the soft reset (register 0x0F, bit 7
\* set), the power bit (register 0x19, bit 6), vmid = PLAYBACK (register
\* 0x19, bits 8:7 = 01); afterwards the shadow is the default table with the
\* address bits, except that register 0x19 has power = 1 and vmid = 1, and
\* sample_rate is None.
C16_Construction ==
    last.op = "init" =>
        /\ frames = << << _REG_RESET * 2, 128 >>,
                       << _REG_PWR_MGMT_1 * 2, 64 >>,
                       << _REG_PWR_MGMT_1 * 2, 64 + 128 >> >>
        /\ \A i \in RegIndex \ { _REG_PWR_MGMT_1 } :
               Word(registers[i]) = _REG_DEFAULTS[i + 1] + (i * 512)
        /\ Word(registers[_REG_PWR_MGMT_1]) =
               _REG_DEFAULTS[_REG_PWR_MGMT_1 + 1] + (_REG_PWR_MGMT_1 * 512) + 64 + 128
        /\ WOBit_get(registers, power)
        /\ WOBits_get(registers, vmid) = PLAYBACK
        /\ sample_rate = None

\* the driver right after construction
C16_Witness ==
    /\ last.op = "init"
    /\ nops = 0
    /\ pending = << >>
    /\ Len(frames) = 3
    /\ WOBit_get(registers, power)

\* the stereo linear controls with their left_ and right_ controls
StereoLinear ==
    { << mic_volume, left_mic_volume, right_mic_volume >>,
      << input2_boost, left_input2_boost, right_input2_boost >>,
      << input3_boost, left_input3_boost, right_input3_boost >>,
      << adc_volume, left_adc_volume, right_adc_volume >>,
      << dac_volume, left_dac_volume, right_dac_volume >>,
      << input3_output_volume, left_input3_output_volume, right_input3_output_volume >>,
      << mic_output_volume, left_mic_output_volume, right_mic_output_volume >>,
      << headphone_volume, left_headphone_volume, right_headphone_volume >>,
      << speaker_volume, left_speaker_volume, right_speaker_volume >> }

\* the shadow after running the writes ws on a freshly constructed driver
After(ws) == Run(Constructed.registers, << >>, ws, 0).registers

\* C17: assigning v to a stereo control (a level control or mic_mute) leaves
\* the shadow in exactly the state reached by assigning v to its left_
\* control and then to its right_ control
C17_StereoComposition ==
    /\ last.op = "linear" =>
           \A t \in StereoLinear :
               pending[1].c = t[1] =>
                   registers = After(linear_setter(t[2], pending[1].value)
                                     \o linear_setter(t[3], pending[1].value))
    /\ (last.op = "mute" /\ pending[1].c.which = "") =>
           registers = After(left_mic_mute_setter(pending[1].value = 1)
                             \o right_mic_mute_setter(pending[1].value = 1))

\* every bit of a stereo switch reads b
AllBits(regs, bits, b) == \A i \in 1 .. Len(bits) : WOBit_get(regs, bits[i]) = b

\* C18 -- wrapper input routing: in every state of the wrapper the
\* microphone amplifier is powered, unmuted and boost-connected iff the input
\* is MIC1, MIC2 or MIC3 (its non-inverting source then VMID, INPUT2, INPUT3);
\* the input-2 boost of both channels is unmuted iff the input is LINE2, the
\* input-3 boost iff it is LINE3; and every assignment to gain leaves in
\* gain the assigned value held inside 0.0 .. 1.0, which no other assignment
\* changes.
C18_InputRouting ==
    /\ [](LET is_mic == _input \in { MIC1, MIC2, MIC3 }
          IN  /\ AllBits(registers, mic, is_mic)
              /\ AllBits(registers, mic_mute, ~is_mic)
              /\ AllBits(registers, mic_boost, is_mic)
              /\ is_mic => mic_input(registers) =
                               (IF _input = MIC1 THEN VMID
                                ELSE IF _input = MIC2 THEN INPUT2 ELSE INPUT3)
              /\ (WOBits_get(registers, _left_input2_boost) # 0) = (_input = LINE2)
              /\ (WOBits_get(registers, _right_input2_boost) # 0) = (_input = LINE2)
              /\ (WOBits_get(registers, _left_input3_boost) # 0) = (_input = LINE3)
              /\ (WOBits_get(registers, _right_input3_boost) # 0) = (_input = LINE3)
              /\ _gain \in 0 .. GainDen)
    /\ [][ IF last'.op = "gain"
           THEN _gain' = (IF last'.value < 0 THEN 0
                          ELSE IF last'.value > GainDen THEN GainDen ELSE last'.value)
           ELSE _gain' = _gain ]_vars

\* a gain was assigned and a line input then selected: its boost carries the gain
C18_Witness ==
    /\ nops = 2
    /\ last.op = "input"
    /\ _input = LINE3
    /\ _gain = GainDen
    /\ WOBits_get(registers, _left_input3_boost) = 7
    /\ WOBits_get(registers, _left_input2_boost) = 0
    /\ AllBits(registers, mic_mute, TRUE)

\* a getter of the wrapper returned 0.0
IsZero(level) == level.err = "none" /\ ~level.none /\ level.num = 0

\* C19 -- wrapper level controls at zero: no getter of volume, headphone,
\* speaker, enhance, monitor ever fails; right after construction and after
\* an assignment of a value <= 0.0 the getter returns 0.0 and the stage is
\* off (dac_mute set; headphone, speaker, enhance, mic_output cleared, the
\* headphone fields holding the mute code 0); after an assignment of a value
\* > 0.0 the stage is on.
C19_LevelsAtZero ==
    LET off(op) == nops = 0 \/ (last.op = op /\ last.value <= 0)
        on(op)  == last.op = op /\ last.value > 0
    IN  /\ WM8960_volume(registers).err = "none"
        /\ WM8960_headphone(registers).err = "none"
        /\ WM8960_speaker(registers).err = "none"
        /\ WM8960_enhance(registers).err = "none"
        /\ WM8960_monitor(registers).err = "none"
        /\ off("volume") => /\ IsZero(WM8960_volume(registers))
                            /\ WOBit_get(registers, dac_mute)
        /\ off("headphone") => /\ IsZero(WM8960_headphone(registers))
                               /\ AllBits(registers, headphone, FALSE)
                               /\ WOBits_get(registers, _left_headphone_volume) = 0
                               /\ WOBits_get(registers, _right_headphone_volume) = 0
        /\ off("speaker") => /\ IsZero(WM8960_speaker(registers))
                             /\ AllBits(registers, speaker, FALSE)
        /\ off("enhance") => /\ IsZero(WM8960_enhance(registers))
                             /\ AllBits(registers, enhance, FALSE)
        /\ off("monitor") => /\ IsZero(WM8960_monitor(registers))
                             /\ AllBits(registers, mic_output, FALSE)
        /\ on("volume") => ~WOBit_get(registers, dac_mute)
        /\ on("headphone") => AllBits(registers, headphone, TRUE)
        /\ on("speaker") => AllBits(registers, speaker, TRUE)
        /\ on("enhance") => AllBits(registers, enhance, TRUE)
        /\ on("monitor") => AllBits(registers, mic_output, TRUE)

\* headphone = 0.0 as the second assignment: the amplifier is off, both
\* fields hold the mute code and the getter returns 0.0
C19_Witness ==
    /\ nops = 2
    /\ last.op = "headphone"
    /\ last.value = 0
    /\ Len(frames) = 6
    /\ AllBits(registers, headphone, FALSE)
    /\ WOBits_get(registers, _left_headphone_volume) = 0
    /\ WOBits_get(registers, _right_headphone_volume) = 0
    /\ IsZero(WM8960_headphone(registers))

\* C20 -- address bits survive every public write: whatever number a named
\* control is assigned, a bit depth below 16 and a hold time just above
\* its minimum included, the top 7 bits of byte 0 of every cell i still
\* equal i.
C20_AddressBitsSurvive ==
    \A i \in RegIndex : registers[i][1] \div 2 = i

(***************************************************************************)
(* C21: no aliasing between controls.  Assigning one non-composite public  *)
(* control leaves the value read from every other one as it was; assigning *)
(* right_headphone_zero_cross or right_speaker_zero_cross changes no cell  *)
(* but that of the right-channel register (0x03, 0x29).                    *)
(***************************************************************************)
C21_NoAliasing ==
    [][ (last'.op = "control") =>
          /\ \A y \in PublicControls \ { last'.c } :
                 control_getter(registers', y) = control_getter(registers, y)
          /\ (last'.c = "right_headphone_zero_cross") =>
                 \A i \in RegIndex \ { _REG_ROUT1_VOLUME } : registers'[i] = registers[i]
          /\ (last'.c = "right_speaker_zero_cross") =>
                 \A i \in RegIndex \ { _REG_ROUT2_VOLUME } : registers'[i] = registers[i]
      ]_vars

\* the frames of fs that address register a, in the order transmitted
FramesTo(fs, a) == SelectSeq(fs, LAMBDA f : (f[1] \div 2) = a)

\* bit 8 of a cell or frame: the low bit of its first byte
UpdateBit(cell) == cell[1] % 2

(***************************************************************************)
(* C22: volume changes are latched.  After a per-channel or stereo volume  *)
(* assignment (mic, ADC, DAC, headphone, speaker), bit 8 of every volume   *)
(* register whose field was written is 1 in the shadow and in the last     *)
(* frame transmitted to that register.                                     *)
(***************************************************************************)
C22_VolumeLatched ==
    (last.op = "volume") =>
        \A i \in 1 .. Len(last.c.channels) :
            LET a  == last.c.channels[i].d.register_address
                to == FramesTo(frames, a)
            IN  /\ UpdateBit(registers[a]) = 1
                /\ to # << >>
                /\ UpdateBit(to[Len(to)]) = 1

\* the position in fs of the first frame that addresses register a (0: none)
FirstTo(fs, a) ==
    IF FramesTo(fs, a) = << >> THEN 0
    ELSE CHOOSE k \in 1 .. Len(fs) :
             /\ (fs[k][1] \div 2) = a
             /\ \A j \in 1 .. (k - 1) : (fs[j][1] \div 2) # a

(***************************************************************************)
(* C23: both channels update together.  In the frames of a stereo volume   *)
(* assignment, first or later, no frame sent before the new code has gone  *)
(* out to both channels' volume registers has bit 8 set.                   *)
(***************************************************************************)
C23_ChannelsUpdateTogether ==
    (last.op = "volume" /\ Len(last.c.channels) = 2) =>
        LET l    == FirstTo(frames, last.c.channels[1].d.register_address)
            r    == FirstTo(frames, last.c.channels[2].d.register_address)
            both == IF l < r THEN r ELSE l
        IN  /\ l > 0
            /\ r > 0
            /\ \A j \in 1 .. (both - 1) : UpdateBit(frames[j]) = 0

\* whether base << shift is the 24-bit value k
IsValue(v, k) ==
    IF v.base = 0 THEN k = 0
    ELSE IF v.shift >= 24 THEN FALSE
    ELSE (v.base * (2 ^ v.shift)) = k

(***************************************************************************)
(* C24: PLL K round trip.  After pll_k = k for a 24-bit unsigned k, the    *)
(* pll_k getter returns k.                                                 *)
(***************************************************************************)
C24_PllKRoundTrip == (last.op = "pll_k") => IsValue(pll_k(registers), last.value)

(***************************************************************************)
(* C25: the clock divider getters are total.  In every reachable state     *)
(* adc_, dac_, base_, amp_ and gpio_clock_divider read an entry of their   *)
(* table without raising, and right after construction they read 1.0, 1.0, *)
(* 1.0, 16.0 and 1.0 (here in halves).                                     *)
(***************************************************************************)
C25_DividerGettersTotal ==
    /\ \A name \in DOMAIN DividerControls :
           /\ control_getter(registers, name).err = "none"
           /\ InTable(DividerControls[name].table, control_getter(registers, name).value)
    /\ (last.op = "init") =>
           /\ control_getter(registers, "adc_clock_divider").value = 2
           /\ control_getter(registers, "dac_clock_divider").value = 2
           /\ control_getter(registers, "base_clock_divider").value = 2
           /\ control_getter(registers, "amp_clock_divider").value = 32
           /\ control_getter(registers, "gpio_clock_divider").value = 2

(***************************************************************************)
(* C26: the cached rate matches the clocks.  After any sequence of         *)
(* sample_rate assignments, accepted or rejected, and reset() calls, when  *)
(* sample_rate reads a rate r the shadow holds what the setter installs    *)
(* for r: PLL enabled and selected as SYSCLK source, N and K of the family *)
(* of r, and ADC and DAC dividers equal to the family base / r.            *)
(***************************************************************************)
C26_CachedRateMatchesClocks ==
    (sample_rate # None) =>
        LET r    == sample_rate[1]
            base == IF r \in Rates48k THEN 48000 ELSE 44100
        IN  /\ WOBit_get(registers, pll)
            /\ WOBit_get(registers, clock_from_pll)
            /\ WOBits_get(registers, pll_n) = (IF base = 48000 THEN 8 ELSE 7)
            /\ KWritten(registers) = (IF base = 48000 THEN PLL_K_48k ELSE PLL_K_44k)
            /\ adc_clock_divider(registers).err = "none"
            /\ adc_clock_divider(registers).value * r = 2 * base
            /\ dac_clock_divider(registers).err = "none"
            /\ dac_clock_divider(registers).value * r = 2 * base

\* whether a cell or frame has the INPUT2 (bit 6) and INPUT3 (bit 7) select
\* bits both set
BothInputs(cell) == BitOf(Word(cell), 6) = 1 /\ BitOf(Word(cell), 7) = 1

(***************************************************************************)
(* C27: only one microphone input is ever selected.  Over any sequence of  *)
(* left_mic_input, right_mic_input and mic_input assignments, no shadow    *)
(* cell of the ADCL/ADCR signal path registers and no frame transmitted to *)
(* them, those in the middle of an assignment included, has bit 6 and      *)
(* bit 7 both set.                                                         *)
(***************************************************************************)
C27_OneMicInput ==
    /\ ~BothInputs(registers[_REG_ADCL_SIGNAL_PATH])
    /\ ~BothInputs(registers[_REG_ADCR_SIGNAL_PATH])
    /\ (last.op = "mic_input") =>
           \A k \in 1 .. Len(frames) :
               ((frames[k][1] \div 2) \in { _REG_ADCL_SIGNAL_PATH, _REG_ADCR_SIGNAL_PATH })
                   => ~BothInputs(frames[k])

(***************************************************************************)
(* C28: ALC time round trip on codes.  With the field of a time control    *)
(* holding a code c (attack and decay 0 .. 10, hold 0 .. 15), assigning    *)
(* the control the value its getter reports is accepted and stores code c  *)
(* again.                                                                  *)
(***************************************************************************)
C28_TimeCodeRoundTrip ==
    (last.op = "code") =>
        /\ last.err = "none"
        /\ Len(frames) = 2
        /\ WOBits_get(registers, pending[1].c.d) = last.value

\* C29 as stated -- reset ordering: reset() re-copies the shadow from the
\* default table first and issues the soft-reset frame (register 0x0F, bit 7
\* set) after that re-copy, which leaves the shadow as the frame's write
\* made it.
C29_CopyThenFrame ==
    [][ (last'.op = "reset" /\ last'.fail = 0) =>
          /\ frames' = reset_CopyFirst(registers, 0).frames
          /\ registers' = reset_CopyFirst(registers, 0).registers ]_vars

(***************************************************************************)
(* C29, amended: reset() issues the soft-reset frame first, built from the *)
(* shadow as it is before the reset, and re-copies the shadow from the     *)
(* default table after it.  The one frame is the reset cell with bit 7     *)
(* set; afterwards every cell holds its default and the reset bit is clear *)
(* in the shadow; when the frame's write raises, the re-copy has not       *)
(* happened and every cell but the reset cell is as it was.  reset() of    *)
(* the WM8960 of adafruit_wm8960.py keeps the same order: its frame first, *)
(* the defaults into the local copy after it, and neither when the write   *)
(* raises.                                                                 *)
(***************************************************************************)
C29_FrameThenCopy ==
    /\ [][ (last'.op = "reset") =>
          /\ (last'.fail = 0) =>
                 /\ last'.err = "none"
                 /\ frames' = << WOBit_set(registers, _reset, TRUE)[_REG_RESET] >>
                 /\ UpdateBit(frames'[1]) = 0 /\ BitOf(frames'[1][2], 7) = 1
                 /\ \A i \in RegIndex :
                        Word(registers'[i]) = _REG_DEFAULTS[i + 1] + (i * 512)
                 /\ ~WOBit_get(registers', _reset)
          /\ (last'.fail = 1) =>
                 /\ last'.err = "OSError"
                 /\ frames' = << >>
                 /\ \A i \in RegIndex \ { _REG_RESET } : registers'[i] = registers[i]
      ]_vars
    /\ [][ (last'.op = "WM8960.reset") =>
          /\ (last'.fail = 0) =>
                 /\ last'.err = "none"
                 /\ frames' = << << _REG_RESET * 2, 128 >> >>
                 /\ \A i \in RegIndex :
                        _registerLocalCopy'[i] = WM8960_REGISTER_DEFAULTS[i + 1]
          /\ (last'.fail = 1) =>
                 /\ last'.err = "OSError"
                 /\ frames' = << >>
                 /\ _registerLocalCopy' = _registerLocalCopy
      ]_vars

\* a reset after an assignment: one frame 1E 80, the reset bit not in the shadow
C29_Witness ==
    /\ last.op = "reset"
    /\ last.fail = 0
    /\ nops >= 2
    /\ frames = << << 30, 128 >> >>
    /\ ~WOBit_get(registers, _reset)
    /\ ~WOBit_get(registers, power)

(***************************************************************************)
(* C30: the two driver variants agree on dB codes.  For each amplifier     *)
(* stage (PGA/mic, ADC, DAC, headphone, speaker) and every level inside    *)
(* the stage's range in the advanced driver, the legacy dB setter and the  *)
(* advanced dB property write the same register field and store the same   *)
(* volume code in it.                                                      *)
(***************************************************************************)
C30_VariantsAgree ==
    (last.op = "variants") =>
        LET c == pending[1].c.advanced
            f == pending[1].c.legacy
        IN  /\ Len(c.channels) = Len(f.regs)
            /\ \A i \in 1 .. Len(c.channels) :
                   LET d == c.channels[i].d
                   IN  /\ d.register_address = f.regs[i]
                       /\ d.lowest_bit = 0
                       /\ d.num_bits = f.msb + 1
                       /\ WOBits_get(registers, d)
                              = _registerLocalCopy[f.regs[i]] % (2 ^ d.num_bits)

====
